---- MODULE Spec2Model ----
(***************************************************************************)
(* Run lifecycle of the job-matching pipeline (run_matching_pipeline /     *)
(* run_matching_for_run) and of the candidate-ranking pipeline             *)
(* (run_candidate_ranking_for_run with its retry-then-fallback stages).    *)
(***************************************************************************)
EXTENDS Integers, Sequences, FiniteSets, TLC

(***************************************************************************)
(* Bounds of the model.                                                    *)
(***************************************************************************)
\* number of jobs in the catalog that filter_jobs can report
MaxJobs == 2
\* number of times a worker may be lost while executing the task
MaxLost == 2

(***************************************************************************)
(* Program constants.                                                      *)
(***************************************************************************)
\* retry_kwargs={'max_retries': 2} of the run_matching_pipeline task
TASK_MAX_RETRIES == 2
\* cap of filter_jobs on the jobs handed to the agent pipeline
MAX_AGENT_JOBS == 300

STATUS_PENDING == "PENDING"
STATUS_FILTERING == "FILTERING"
STATUS_AGENT_RUNNING == "AGENT_RUNNING"
STATUS_COMPLETED == "COMPLETED"
STATUS_FAILED == "FAILED"

MatchingStatuses ==
  {STATUS_PENDING, STATUS_FILTERING, STATUS_AGENT_RUNNING, STATUS_COMPLETED, STATUS_FAILED}

Min(a, b) == IF a <= b THEN a ELSE b

\* the workers that execute the task; one worker runs deliveries one after another
Workers == {1}

Catalog == 1..MaxJobs

VARIABLES
  run,          \* the MatchingRun row in the database
  results,      \* the MatchingResult rows of the run visible in the database
  queue,        \* task messages waiting for a worker: request.retries of each
  clock,        \* timezone.now(), one tick per delivery
  lost,         \* number of worker losses so far
  pc,           \* per worker: position in run_matching_pipeline
  request,      \* per worker: request.retries of the message being executed
  mem,          \* per worker: the in-memory matching_run object
  fr,           \* per worker: filtering_result (total_considered, jobs)
  tm,           \* per worker: the local timing_metrics dict (its key set)
  pr,           \* per worker: pipeline_result['top_jobs']
  tx,           \* per worker: MatchingResult rows inside the open transaction
  hist          \* per worker: what the current/last invocation has done

mvars == <<run, results, queue, clock, lost, pc, request, mem, fr, tm, pr, tx, hist>>

VARIABLES
  rrun,         \* the CandidateRankingRun row in the database
  rresults,     \* the CandidateRankingResult rows of the run
  trace,        \* the AgentTraceEvent rows of the run, in insertion order
  cache,        \* CollegeTierLookupCache: institution_normalized -> tier
  pref,         \* the RecruiterJobPreference row of the job
  job_candidates, \* JobCandidate.objects.filter(job=run.job).order_by('created_at', 'id')
  rpc,          \* position in run_candidate_ranking_for_run
  rqueue,       \* invocations of run_candidate_ranking_for_run still to come
  doomed,       \* candidates for whom every attempt of every stage fails
  faults,       \* failed attempts caused so far for the other candidates
  cur,          \* loop state: candidate index, stage, attempt, calls of fn
  outs,         \* the stage outputs of the candidate being processed
  scored_rows,  \* scored_rows / ranked
  stage_metrics,\* retry_counts and fallback_counts
  rhist,        \* what the current/last invocation has done
  rretries      \* request.retries of the run_candidate_ranking_pipeline message

rvars == <<rrun, rresults, trace, cache, pref, job_candidates, rpc, rqueue, doomed, faults,
           cur, outs, scored_rows, stage_metrics, rhist, rretries>>

VARIABLES
  jobs_in,      \* the jobs handed to run_agent_pipeline, in input order
  preferences,  \* preferences['weights'] of the run
  settings,     \* GPT_JOB_SCORING_ENABLED, OPENAI_API_KEY set, GPT_JOB_SCORING_TOP_N
  apc,          \* position in run_agent_pipeline
  result_rows,  \* result_rows
  heuristic_rows, \* result_rows as the heuristic phase left them, sorted
  gpt_results,  \* what score_jobs_with_gpt returned
  gpt_metrics,  \* what _apply_gpt_scoring returned
  top_jobs      \* pipeline_result['top_jobs']

avars == <<jobs_in, preferences, settings, apc, result_rows, heuristic_rows, gpt_results,
           gpt_metrics, top_jobs>>

VARIABLES
  fprefs,       \* the normalized preferences handed to filter_jobs
  fjobs,        \* the queryset `jobs` of filter_jobs: the Job rows still in it
  fmetrics,     \* the metrics dict of filter_jobs: key -> count
  fpc           \* position in filter_jobs

fvars == <<fprefs, fjobs, fmetrics, fpc>>

VARIABLES
  cruns,        \* the CandidateRankingRun rows of the job
  cdispatched,  \* the dispatches of the ranking pipeline: run id and the way
  cresponse,    \* the response of the last call of the create view
  crequests     \* the calls of the create view so far

cvars == <<cruns, cdispatched, cresponse, crequests>>

VARIABLES
  orun,         \* the MatchingRun row that two overlapping executions process
  oresults,     \* the committed MatchingResult rows of that run
  opc,          \* per execution: position in run_matching_pipeline
  omem,         \* per execution: the in-memory matching_run object
  ofr,          \* per execution: filtering_result
  odeleted      \* per execution: the rows its delete inside the transaction took

ovars == <<orun, oresults, opc, omem, ofr, odeleted>>

vars == <<mvars, rvars, avars, fvars, cvars, ovars>>

\* the timing_metrics keys of the run
TimingKeys == {"filtering_ms", "deterministic_metrics", "agent_ms_total", "gpt_scoring", "total_ms"}

\* MatchingRun.objects.create(status=PENDING, ...) in matches_runs_view
NewRun ==
  [status |-> STATUS_PENDING, started_at |-> 0, completed_at |-> 0,
   error_code |-> "", error_message |-> "", filtered_jobs_count |-> 0,
   timing_metrics |-> {}]

NoHist ==
  [outcome |-> "none", entered_agent |-> FALSE, agent_calls |-> 0,
   write_failed |-> FALSE, partial |-> 0, committed |-> FALSE, before |-> NewRun,
   results_before |-> {}, raised |-> ""]

\* model.save(update_fields=fields): only the named columns are written
Save(row, obj, fields) ==
  [f \in DOMAIN row |-> IF f \in fields THEN obj[f] ELSE row[f]]

IsTerminal(status) == status \in {STATUS_COMPLETED, STATUS_FAILED}

\* run_matching_pipeline.delay(str(run.id)) in matches_runs_view
FirstMessage == [retries |-> 0, countdown |-> 0]

\* 2^n, the countdown of retry_backoff=True before retry n+1
RECURSIVE Pow2(_)
Pow2(n) == IF n = 0 THEN 1 ELSE 2 * Pow2(n - 1)

MInit ==
  /\ run = NewRun
  /\ results = {}
  /\ queue = <<FirstMessage>>
  /\ clock = 0
  /\ lost = 0
  /\ pc = [w \in Workers |-> "idle"]
  /\ request = [w \in Workers |-> 0]
  /\ mem = [w \in Workers |-> NewRun]
  /\ fr = [w \in Workers |-> [total_considered |-> 0, jobs |-> <<>>]]
  /\ tm = [w \in Workers |-> {}]
  /\ pr = [w \in Workers |-> <<>>]
  /\ tx = [w \in Workers |-> {}]
  /\ hist = [w \in Workers |-> NoHist]

(***************************************************************************)
(* filter_jobs and run_agent_pipeline, as far as the run lifecycle needs   *)
(* them: the surviving jobs in their order, and one ranked row per job.    *)
(***************************************************************************)
SetMax(S) == CHOOSE x \in S : \A y \in S : y <= x

\* ordered_jobs: the surviving jobs, most recent (highest id) first
RECURSIVE OrderedJobs(_)
OrderedJobs(S) ==
  IF S = {} THEN <<>> ELSE <<SetMax(S)>> \o OrderedJobs(S \ {SetMax(S)})

\* the dict filter_jobs returns for the surviving set S
FilterJobs(S) ==
  [total_considered |-> Cardinality(S),
   jobs |-> SubSeq(OrderedJobs(S), 1, Min(Cardinality(S), MAX_AGENT_JOBS))]

\* pipeline_result['top_jobs']: one row per job, rank = position
RunAgentPipeline(jobs) ==
  [i \in 1..Len(jobs) |-> [job_id |-> jobs[i], rank |-> i]]

(***************************************************************************)
(* run_matching_pipeline: the Celery task around run_matching_for_run.     *)
(***************************************************************************)
\* the task body starts: the message is taken and the run row is loaded
Load(w) ==
  /\ pc[w] = "idle"
  /\ \A v \in Workers : pc[v] = "idle"
  /\ queue # <<>>
  /\ queue' = Tail(queue)
  /\ request' = [request EXCEPT ![w] = Head(queue).retries]
  /\ clock' = clock + 1

\* the record of an invocation that has just loaded the run
Fresh == [NoHist EXCEPT !.before = run, !.results_before = results]

\* except Exception: mark the run FAILED, save, re-raise; autoretry_for then
\* calls self.retry while request.retries < max_retries
TaskFails(w, exc, h) ==
  LET failed == [mem[w] EXCEPT !.status = STATUS_FAILED,
                               !.error_code = "AGENT_PIPELINE_ERROR",
                               !.error_message = exc]
  IN /\ mem' = [mem EXCEPT ![w] = failed]
     /\ run' = Save(run, failed, {"status", "error_code", "error_message"})
     /\ queue' = IF request[w] < TASK_MAX_RETRIES
                    THEN Append(queue, [retries |-> request[w] + 1,
                                        countdown |-> Pow2(request[w])])
                    ELSE queue
     /\ pc' = [pc EXCEPT ![w] = "idle"]
     /\ hist' = [hist EXCEPT ![w] = [h EXCEPT !.outcome = "raised", !.raised = exc]]

\* faulty variant of TaskReturnTerminal: without the two terminal checks the
\* invocation starts the pipeline again on a COMPLETED or FAILED run
TaskRestartsTerminal(w) ==
  /\ UNCHANGED <<rvars, avars, fvars, cvars, ovars>>
  /\ Load(w)
  /\ IsTerminal(run.status)
  /\ LET m == [run EXCEPT !.status = STATUS_FILTERING, !.started_at = clock + 1]
     IN /\ mem' = [mem EXCEPT ![w] = m]
        /\ run' = Save(run, m, {"status", "started_at"})
  /\ pc' = [pc EXCEPT ![w] = "filter"]
  /\ hist' = [hist EXCEPT ![w] = Fresh]
  /\ UNCHANGED <<results, lost, fr, tm, pr, tx>>

\* the run is already COMPLETED or FAILED: the task returns its status
TaskReturnTerminal(w) ==
  /\ UNCHANGED <<rvars, avars, fvars, cvars, ovars>>
  /\ Load(w)
  /\ IsTerminal(run.status)
  /\ mem' = [mem EXCEPT ![w] = run]
  /\ pc' = [pc EXCEPT ![w] = "idle"]
  /\ hist' = [hist EXCEPT ![w] = [Fresh EXCEPT !.outcome = "noop"]]
  /\ UNCHANGED <<run, results, lost, fr, tm, pr, tx>>

\* run_matching_for_run on a non-terminal run: FILTERING, started_at, save
BeginFiltering(w) ==
  /\ UNCHANGED <<rvars, avars, fvars, cvars, ovars>>
  /\ Load(w)
  /\ ~IsTerminal(run.status)
  /\ LET m == [run EXCEPT !.status = STATUS_FILTERING, !.started_at = clock + 1]
     IN /\ mem' = [mem EXCEPT ![w] = m]
        /\ run' = Save(run, m, {"status", "started_at"})
  /\ pc' = [pc EXCEPT ![w] = "filter"]
  /\ hist' = [hist EXCEPT ![w] = Fresh]
  /\ UNCHANGED <<results, lost, fr, tm, pr, tx>>

\* normalize_preferences or filter_jobs raises
FilterRaises(w) ==
  /\ UNCHANGED <<rvars, avars, fvars, cvars, ovars>>
  /\ pc[w] = "filter"
  /\ \E exc \in {"normalize_preferences", "filter_jobs"} : TaskFails(w, exc, hist[w])
  /\ UNCHANGED <<results, clock, lost, request, fr, tm, pr, tx>>

\* filter_jobs reports total_considered == 0: straight to COMPLETED
FilterEmpty(w) ==
  /\ UNCHANGED <<rvars, avars, fvars, cvars, ovars>>
  /\ pc[w] = "filter"
  /\ LET f == FilterJobs({})
         t == mem[w].timing_metrics
                \cup {"filtering_ms", "deterministic_metrics", "agent_ms_total", "total_ms"}
         m == [mem[w] EXCEPT !.filtered_jobs_count = f.total_considered,
                             !.status = STATUS_COMPLETED,
                             !.completed_at = clock,
                             !.timing_metrics = t]
     IN /\ fr' = [fr EXCEPT ![w] = f]
        /\ tm' = [tm EXCEPT ![w] = t]
        /\ mem' = [mem EXCEPT ![w] = m]
        /\ run' = Save(run, m, {"status", "completed_at", "filtered_jobs_count",
                                "timing_metrics"})
  /\ pc' = [pc EXCEPT ![w] = "return"]
  /\ hist' = [hist EXCEPT ![w].outcome = "empty"]
  /\ UNCHANGED <<results, queue, clock, lost, request, pr, tx>>

\* filter_jobs reports surviving jobs: AGENT_RUNNING, save
FilterNonEmpty(w) ==
  /\ UNCHANGED <<rvars, avars, fvars, cvars, ovars>>
  /\ pc[w] = "filter"
  /\ \E S \in (SUBSET Catalog) \ {{}} :
       LET f == FilterJobs(S)
           t == mem[w].timing_metrics \cup {"filtering_ms", "deterministic_metrics"}
           m == [mem[w] EXCEPT !.filtered_jobs_count = f.total_considered,
                               !.status = STATUS_AGENT_RUNNING,
                               !.timing_metrics = t]
       IN /\ fr' = [fr EXCEPT ![w] = f]
          /\ tm' = [tm EXCEPT ![w] = t]
          /\ mem' = [mem EXCEPT ![w] = m]
          /\ run' = Save(run, m, {"status", "filtered_jobs_count", "timing_metrics"})
  /\ pc' = [pc EXCEPT ![w] = "agent"]
  /\ hist' = [hist EXCEPT ![w].entered_agent = TRUE]
  /\ UNCHANGED <<results, queue, clock, lost, request, pr, tx>>

\* run_agent_pipeline raises
AgentRaises(w) ==
  /\ UNCHANGED <<rvars, avars, fvars, cvars, ovars>>
  /\ pc[w] = "agent"
  /\ TaskFails(w, "run_agent_pipeline",
               [hist[w] EXCEPT !.agent_calls = hist[w].agent_calls + 1])
  /\ UNCHANGED <<results, clock, lost, request, fr, tm, pr, tx>>

\* run_agent_pipeline returns; transaction.atomic() opens and the old rows
\* of the run are deleted inside it
AgentPipeline(w) ==
  /\ UNCHANGED <<rvars, avars, fvars, cvars, ovars>>
  /\ pc[w] = "agent"
  /\ pr' = [pr EXCEPT ![w] = RunAgentPipeline(fr[w].jobs)]
  /\ tx' = [tx EXCEPT ![w] = {}]
  /\ pc' = [pc EXCEPT ![w] = "insert"]
  /\ hist' = [hist EXCEPT ![w].agent_calls = hist[w].agent_calls + 1]
  /\ UNCHANGED <<run, results, queue, clock, lost, request, mem, fr, tm>>

\* MatchingResult.objects.create for the next top_job, inside the transaction
InsertRow(w) ==
  /\ UNCHANGED <<rvars, avars, fvars, cvars, ovars>>
  /\ pc[w] = "insert"
  /\ Cardinality(tx[w]) < Len(pr[w])
  /\ tx' = [tx EXCEPT ![w] = tx[w] \cup {pr[w][Cardinality(tx[w]) + 1]}]
  /\ UNCHANGED <<run, results, queue, clock, lost, pc, request, mem, fr, tm, pr, hist>>

\* the rows visible once a failed create has left the atomic block: the
\* transaction is rolled back, delete included
\* faulty variant of RolledBack: without transaction.atomic() the delete and
\* the rows created before the failure stay
NotRolledBack(visible, written) == written

RolledBack(visible, written) == visible

\* a create raises: the atomic block rolls back and the exception reaches the task
InsertRowFails(w) ==
  /\ UNCHANGED <<rvars, avars, fvars, cvars, ovars>>
  /\ pc[w] = "insert"
  /\ Cardinality(tx[w]) < Len(pr[w])
  /\ results' = RolledBack(results, tx[w])
  /\ tx' = [tx EXCEPT ![w] = {}]
  /\ TaskFails(w, "MatchingResult.create", [hist[w] EXCEPT !.write_failed = TRUE, !.partial = Cardinality(tx[w])])
  /\ UNCHANGED <<clock, lost, request, fr, tm, pr>>

\* the atomic block ends: delete and inserts become visible together
CommitResults(w) ==
  /\ UNCHANGED <<rvars, avars, fvars, cvars, ovars>>
  /\ pc[w] = "insert"
  /\ Cardinality(tx[w]) = Len(pr[w])
  /\ results' = tx[w]
  /\ tx' = [tx EXCEPT ![w] = {}]
  /\ pc' = [pc EXCEPT ![w] = "complete"]
  /\ hist' = [hist EXCEPT ![w].committed = TRUE]
  /\ UNCHANGED <<run, queue, clock, lost, request, mem, fr, tm, pr>>

\* timing metrics, COMPLETED, completed_at, save; the task returns
CompleteRun(w) ==
  /\ UNCHANGED <<rvars, avars, fvars, cvars, ovars>>
  /\ pc[w] = "complete"
  /\ LET t == tm[w] \cup {"agent_ms_total", "gpt_scoring", "total_ms"}
         m == [mem[w] EXCEPT !.status = STATUS_COMPLETED,
                             !.completed_at = clock,
                             !.timing_metrics = t]
     IN /\ tm' = [tm EXCEPT ![w] = t]
        /\ mem' = [mem EXCEPT ![w] = m]
        /\ run' = Save(run, m, {"status", "completed_at", "timing_metrics"})
  /\ pc' = [pc EXCEPT ![w] = "return"]
  /\ hist' = [hist EXCEPT ![w].outcome = "completed"]
  /\ UNCHANGED <<results, queue, clock, lost, request, fr, pr, tx>>

\* return {'status': COMPLETED}: the task ends and its message is done with
TaskReturns(w) ==
  /\ UNCHANGED <<rvars, avars, fvars, cvars, ovars>>
  /\ pc[w] = "return"
  /\ pc' = [pc EXCEPT ![w] = "idle"]
  /\ UNCHANGED <<run, results, queue, clock, lost, request, mem, fr, tm, pr, tx, hist>>

\* the worker process is lost while it executes the task: an open
\* transaction is rolled back and the queue delivers the message again
WorkerLost(w) ==
  /\ UNCHANGED <<rvars, avars, fvars, cvars, ovars>>
  /\ pc[w] # "idle"
  /\ lost < MaxLost
  /\ lost' = lost + 1
  /\ queue' = Append(queue, [retries |-> request[w], countdown |-> 0])
  /\ tx' = [tx EXCEPT ![w] = {}]
  /\ pc' = [pc EXCEPT ![w] = "idle"]
  /\ hist' = [hist EXCEPT ![w].outcome = IF pc[w] = "return" THEN @ ELSE "lost"]
  /\ UNCHANGED <<run, results, clock, request, mem, fr, tm, pr>>

(***************************************************************************)
(* Candidate ranking: run_candidate_ranking_for_run and its six stages.    *)
(***************************************************************************)
\* number of JobCandidate rows of the job
MaxCandidates == 2
\* failed stage attempts the environment may cause besides those of the
\* candidates for whom every attempt of every stage fails
MaxFaults == 1
\* invocations of run_candidate_ranking_for_run for the run
MaxInvocations == 2

\* STAGE_MAX_RETRIES = int(os.getenv('CANDIDATE_AI_STAGE_RETRIES', '2'))
STAGE_MAX_RETRIES == 2
STAGE_MAX_ATTEMPTS == STAGE_MAX_RETRIES + 1

STATUS_RUNNING == "RUNNING"

Stages == <<"A", "B", "C", "D", "E", "F">>

STAGE_REQUIRED_KEYS ==
  [A |-> {"normalized_candidate"},
   B |-> {"college_tier", "confidence", "evidence", "cache_hit"},
   C |-> {"years_of_experience", "experience_band", "confidence", "evidence"},
   D |-> {"extracted_platform_signals", "criteria_comparisons"},
   E |-> {"passes_hard_filter", "rejected_reasons"},
   F |-> {"sub_scores", "final_score", "summary"}]

TierEnum == {"TIER_1", "TIER_2", "TIER_3", "UNKNOWN"}

\* what adapter.run_json can give for one classification: a payload with a
\* college_tier label, or an exception (no key, SDK, request failure, timeout)
ModelReplies == {"TIER_1", "TIER_2", "BOGUS", "fail"}

\* the JobCandidate rows of the job in (created_at, id) order, two rows to a
\* creation time (auto_now_add does not make the times distinct); resume data
\* by what the stages read from it: institution text, years found in the
\* experience text, codeforces rating found (0: none), job-description hits
CandidateRow(c) ==
  [id |-> c, created_at |-> (c + 1) \div 2,
   education_text |-> IF c % 2 = 1 THEN "iit" ELSE "",
   years |-> IF c % 3 = 2 THEN 5 ELSE 1,
   codeforces |-> IF c % 2 = 1 THEN 1500 ELSE 0,
   jd_hits |-> c]

Candidates == [c \in 1..MaxCandidates |-> CandidateRow(c)]

\* the RecruiterJobPreference of the job (NoPref: there is none)
NoPref == [exists |-> FALSE]

ThePref ==
  [exists |-> TRUE, college_tiers |-> {"TIER_1"},
   min_experience_years |-> 0, max_experience_years |-> 2,
   coding_platform_criteria |->
     <<[platform |-> "codeforces", metric |-> "rating", operator |-> "gte", value |-> 1400]>>,
   number_of_openings |-> 1]


\* CandidateRankingRun.objects.create(status=PENDING, ...) in the create view
NewRankingRun ==
  [status |-> STATUS_PENDING, error_code |-> "", error_message |-> "",
   started_at |-> 0, completed_at |-> 0, total_candidates |-> 0,
   processed_candidates |-> 0, shortlisted_count |-> 0, timing_metrics |-> {}]

(***************************************************************************)
(* The stage functions of agents/stages.py.  An output is a dict: `keys`   *)
(* is its key set, the other fields are the values the later stages read.  *)
(***************************************************************************)
\* candidate_normalizer_agent
CandidateNormalizerAgent(candidate) ==
  [is_dict |-> TRUE, keys |-> {"normalized_candidate"},
   normalized_candidate |->
     [education_text |-> candidate.education_text, years |-> candidate.years,
      codeforces |-> candidate.codeforces, jd_hits |-> candidate.jd_hits]]

\* normalized = {} when stage A fell back: every text read from it is ''
EmptyNormalized == [education_text |-> "", years |-> 0, codeforces |-> 0, jd_hits |-> 0]

\* institution_key = re.sub(r'\s+', ' ', education_text.strip().lower())[:255],
\* for the education texts of the model: "IIT " and "iit" name one
\* institution, " " is blank
InstitutionKey(education_text) ==
  CASE education_text = " " -> ""
    [] education_text = "IIT " -> "iit"
    [] OTHER -> education_text

\* the CollegeTierLookupCache rows before the run: none, or one from an
\* earlier classification
CacheChoices == {{}, {[institution_normalized |-> "iit", tier |-> "TIER_1"]}}

\* CollegeTierLookupCache.objects.filter(institution_normalized=key).first()
CacheLookup(lookup, key) == {e \in lookup : e.institution_normalized = key}

\* college_tier_classifier_agent: the output for the reply of adapter.run_json
\* (read only on a cache miss with education text)
CollegeTierClassifierAgent(normalized, lookup, reply) ==
  LET key == InstitutionKey(normalized.education_text)
      all == {"college_tier", "confidence", "evidence", "cache_hit"}
  IN IF key # "" /\ CacheLookup(lookup, key) # {}
       THEN [is_dict |-> TRUE, keys |-> all,
             college_tier |-> (CHOOSE e \in CacheLookup(lookup, key) : TRUE).tier,
             cache_hit |-> TRUE, evidence |-> "cached", model_called |-> FALSE]
     ELSE IF normalized.education_text = ""
       THEN [is_dict |-> TRUE, keys |-> all, college_tier |-> "UNKNOWN",
             cache_hit |-> FALSE, evidence |-> "No education data", model_called |-> FALSE]
     ELSE IF reply = "fail"
       THEN [is_dict |-> TRUE, keys |-> all, college_tier |-> "UNKNOWN",
             cache_hit |-> FALSE, evidence |-> "fallback_used", model_called |-> TRUE]
     ELSE [is_dict |-> TRUE, keys |-> all,
           college_tier |-> IF reply \in TierEnum THEN reply ELSE "UNKNOWN",
           cache_hit |-> FALSE, evidence |-> "model", model_called |-> TRUE]

\* faulty variant of CacheAfterClassify: every classification by the model is
\* written, the fallback to UNKNOWN included
CacheAfterClassifyAlways(normalized, lookup, out) ==
  LET key == InstitutionKey(normalized.education_text)
  IN IF ~out.cache_hit /\ out.model_called /\ key # ""
       THEN (lookup \ CacheLookup(lookup, key))
            \cup {[institution_normalized |-> key, tier |-> out.college_tier]}
       ELSE lookup

\* the cache after college_tier_classifier_agent: update_or_create only for a
\* fresh classification with a known tier
CacheAfterClassify(normalized, lookup, out) ==
  LET key == InstitutionKey(normalized.education_text)
  IN IF ~out.cache_hit /\ out.model_called /\ key # "" /\ out.college_tier # "UNKNOWN"
       THEN (lookup \ CacheLookup(lookup, key))
            \cup {[institution_normalized |-> key, tier |-> out.college_tier]}
       ELSE lookup

\* experience_extraction_agent
ExperienceExtractionAgent(normalized) ==
  [is_dict |-> TRUE,
   keys |-> {"years_of_experience", "experience_band", "confidence", "evidence"},
   years_of_experience |-> normalized.years]

\* one rule of coding_platform_criteria against the extracted signals
CompareRule(rule, signals) ==
  LET hit == {s \in signals : s.platform = rule.platform /\ s.metric = rule.metric}
  IN IF hit = {} THEN FALSE
     ELSE LET value == (CHOOSE s \in hit : TRUE).value
          IN CASE rule.operator = "gte" -> value >= rule.value
               [] rule.operator = "lte" -> value <= rule.value
               [] rule.operator = "eq" -> value = rule.value
               [] OTHER -> FALSE

\* coding_profile_signal_agent
CodingProfileSignalAgent(normalized, p) ==
  LET extracted ==
        IF normalized.codeforces > 0
          THEN {[platform |-> "codeforces", metric |-> "rating",
                 value |-> normalized.codeforces]}
          ELSE {}
  IN [is_dict |-> TRUE, keys |-> {"extracted_platform_signals", "criteria_comparisons"},
      extracted_platform_signals |-> extracted,
      criteria_comparisons |->
        [i \in 1..Len(p.coding_platform_criteria) |->
           CompareRule(p.coding_platform_criteria[i], extracted)]]

\* faulty variant of HardFilterAgent: the coding comparisons are not looked at
HardFilterAgentWithoutCoding(p, college_out, exp_out, coding_out) ==
  LET tier_bad == college_out.college_tier \notin p.college_tiers
      years == exp_out.years_of_experience
      exp_bad == years < p.min_experience_years \/ years > p.max_experience_years
  IN [is_dict |-> TRUE, keys |-> {"passes_hard_filter", "rejected_reasons"},
      passes_hard_filter |-> ~(tier_bad \/ exp_bad),
      rejected_reasons |->
        (IF tier_bad THEN {"College tier mismatch"} ELSE {})
        \cup (IF exp_bad THEN {"Experience outside preferred range"} ELSE {})]

\* hard_filter_agent
HardFilterAgent(p, college_out, exp_out, coding_out) ==
  LET tier_bad == college_out.college_tier \notin p.college_tiers
      years == exp_out.years_of_experience
      exp_bad == years < p.min_experience_years \/ years > p.max_experience_years
      comparisons == coding_out.criteria_comparisons
      coding_bad == \E i \in 1..Len(comparisons) : ~comparisons[i]
  IN [is_dict |-> TRUE, keys |-> {"passes_hard_filter", "rejected_reasons"},
      passes_hard_filter |-> ~(tier_bad \/ exp_bad \/ coding_bad),
      rejected_reasons |->
        (IF tier_bad THEN {"College tier mismatch"} ELSE {})
        \cup (IF exp_bad THEN {"Experience outside preferred range"} ELSE {})
        \cup (IF coding_bad THEN {"Coding criteria mismatch"} ELSE {})]

\* faulty variant of FitScoringAgent: the hard-filter output is not looked at
FitScoringAgentWithoutFilter(normalized, hard_out, college_out, exp_out, coding_out, p) ==
  LET education_fit == IF college_out.college_tier \in p.college_tiers THEN 100 ELSE 0
      years == exp_out.years_of_experience
      experience_fit ==
        IF p.min_experience_years <= years /\ years <= p.max_experience_years
          THEN 100 ELSE 0
      comparisons == coding_out.criteria_comparisons
      matched == Cardinality({i \in 1..Len(comparisons) : comparisons[i]})
      coding_fit == IF Len(comparisons) > 0
                      THEN (100 * matched) \div Len(comparisons) ELSE 70
      jd_relevance == Min(100, normalized.jd_hits * 5)
  IN [is_dict |-> TRUE, keys |-> {"sub_scores", "final_score", "summary"},
      education_fit |-> education_fit, experience_fit |-> experience_fit,
      coding_fit |-> coding_fit, jd_relevance |-> jd_relevance,
      final_score |-> 25 * education_fit + 25 * experience_fit
                      + 30 * coding_fit + 20 * jd_relevance,
      summary |-> "Composite candidate fit score"]

\* fit_scoring_agent; final_score is kept in hundredths (round(..., 2))
FitScoringAgent(normalized, hard_out, college_out, exp_out, coding_out, p) ==
  IF ~hard_out.passes_hard_filter
    THEN [is_dict |-> TRUE, keys |-> {"sub_scores", "final_score", "summary"},
          education_fit |-> 0, experience_fit |-> 0, coding_fit |-> 0, jd_relevance |-> 0,
          final_score |-> 0, summary |-> "Rejected by hard filters"]
    ELSE
      LET education_fit == IF college_out.college_tier \in p.college_tiers THEN 100 ELSE 0
          years == exp_out.years_of_experience
          experience_fit ==
            IF p.min_experience_years <= years /\ years <= p.max_experience_years
              THEN 100 ELSE 0
          comparisons == coding_out.criteria_comparisons
          matched == Cardinality({i \in 1..Len(comparisons) : comparisons[i]})
          coding_fit == IF Len(comparisons) > 0
                          THEN (100 * matched) \div Len(comparisons) ELSE 70
          jd_relevance == Min(100, normalized.jd_hits * 5)
      IN [is_dict |-> TRUE, keys |-> {"sub_scores", "final_score", "summary"},
          education_fit |-> education_fit, experience_fit |-> experience_fit,
          coding_fit |-> coding_fit, jd_relevance |-> jd_relevance,
          final_score |-> 25 * education_fit + 25 * experience_fit
                          + 30 * coding_fit + 20 * jd_relevance,
          summary |-> "Composite candidate fit score"]

\* _stage_fallback
StageFallback(stage) ==
  CASE stage = "A" -> [is_dict |-> TRUE, keys |-> {"normalized_candidate"},
                       normalized_candidate |-> EmptyNormalized]
    [] stage = "B" -> [is_dict |-> TRUE,
                       keys |-> {"college_tier", "confidence", "evidence", "cache_hit"},
                       college_tier |-> "UNKNOWN", cache_hit |-> FALSE,
                       evidence |-> "stage_fallback", model_called |-> FALSE]
    [] stage = "C" -> [is_dict |-> TRUE,
                       keys |-> {"years_of_experience", "experience_band", "confidence",
                                 "evidence"},
                       years_of_experience |-> 0]
    [] stage = "D" -> [is_dict |-> TRUE,
                       keys |-> {"extracted_platform_signals", "criteria_comparisons"},
                       extracted_platform_signals |-> {}, criteria_comparisons |-> <<>>]
    [] stage = "E" -> [is_dict |-> TRUE, keys |-> {"passes_hard_filter", "rejected_reasons"},
                       passes_hard_filter |-> FALSE,
                       rejected_reasons |-> {"hard_filter_fallback"}]
    [] stage = "F" -> [is_dict |-> TRUE, keys |-> {"sub_scores", "final_score", "summary"},
                       education_fit |-> 0, experience_fit |-> 0, coding_fit |-> 0,
                       jd_relevance |-> 0, final_score |-> 0,
                       summary |-> "fit_scoring_fallback"]

\* _validate_stage_output
ValidateStageOutput(stage, output) ==
  /\ output.is_dict
  /\ STAGE_REQUIRED_KEYS[stage] \subseteq output.keys

(***************************************************************************)
(* ranker_agent and the fallback ordering.                                 *)
(***************************************************************************)
\* the sort key of ranker_agent, compared as Python compares tuples
RankerKeyLess(a, b) ==
  \/ a.final_score > b.final_score
  \/ /\ a.final_score = b.final_score
     /\ \/ a.coding_fit > b.coding_fit
        \/ /\ a.coding_fit = b.coding_fit
           /\ \/ a.experience_fit > b.experience_fit
              \/ /\ a.experience_fit = b.experience_fit
                 /\ a.created_at < b.created_at

\* faulty variant of FallbackKeyLess: the newest candidate comes first
FallbackKeyLessNewestFirst(a, b) ==
  \/ a.created_at > b.created_at
  \/ a.created_at = b.created_at /\ a.candidate > b.candidate

\* the key of the fallback ordering: (created_at, id)
FallbackKeyLess(a, b) ==
  \/ a.created_at < b.created_at
  \/ a.created_at = b.created_at /\ a.candidate < b.candidate

\* sorted(): stable, so a row goes behind every row that is not after it
RECURSIVE InsertSorted(_, _, _)
InsertSorted(sorted, x, useRanker) ==
  IF sorted = <<>> THEN <<x>>
  ELSE IF (IF useRanker THEN RankerKeyLess(x, Head(sorted))
                        ELSE FallbackKeyLess(x, Head(sorted)))
    THEN <<x>> \o sorted
    ELSE <<Head(sorted)>> \o InsertSorted(Tail(sorted), x, useRanker)

RECURSIVE SortRows(_, _)
SortRows(rows, useRanker) ==
  IF rows = <<>> THEN <<>>
  ELSE InsertSorted(SortRows(SubSeq(rows, 1, Len(rows) - 1), useRanker),
                    rows[Len(rows)], useRanker)

\* faulty variant of AssignRanks: is_shortlisted = idx < openings
AssignRanksBelowOpenings(ranked, openings) ==
  [i \in 1..Len(ranked) |->
     [candidate |-> ranked[i].candidate, rank |-> i, is_shortlisted |-> i < openings,
      passes_hard_filter |-> ranked[i].passes_hard_filter,
      final_score |-> ranked[i].final_score, coding_fit |-> ranked[i].coding_fit,
      experience_fit |-> ranked[i].experience_fit, created_at |-> ranked[i].created_at]]

\* enumerate(ranked, start=1): rank and is_shortlisted
AssignRanks(ranked, openings) ==
  [i \in 1..Len(ranked) |->
     [candidate |-> ranked[i].candidate, rank |-> i, is_shortlisted |-> i <= openings,
      passes_hard_filter |-> ranked[i].passes_hard_filter,
      final_score |-> ranked[i].final_score, coding_fit |-> ranked[i].coding_fit,
      experience_fit |-> ranked[i].experience_fit, created_at |-> ranked[i].created_at]]

\* ranker_agent
RankerAgent(rows, openings) == AssignRanks(SortRows(rows, TRUE), openings)

\* the except branch of run_candidate_ranking_for_run
FallbackRanking(rows, openings) == AssignRanks(SortRows(rows, FALSE), openings)

(***************************************************************************)
(* _execute_stage_with_retry and run_candidate_ranking_for_run.            *)
(***************************************************************************)
NoOutput == [is_dict |-> FALSE, keys |-> {}]

NoOuts == [A |-> NoOutput, B |-> NoOutput, C |-> NoOutput, D |-> NoOutput,
           E |-> NoOutput, F |-> NoOutput, ok_norm |-> FALSE]

NoReturn ==
  [candidate |-> 0, stage |-> "", output |-> [is_dict |-> FALSE, keys |-> {}],
   ok |-> FALSE, attempts |-> 0, fallback |-> FALSE, calls |-> 0]

NoRHist == [outcome |-> "none", before |-> NewRankingRun, results_before |-> {},
            trace_before |-> <<>>, ret |-> NoReturn, fn |-> "none"]

NewStageMetrics ==
  [retry_counts |-> [s \in {"A", "B", "C", "D", "E", "F"} |-> 0],
   fallback_counts |-> [s \in {"A", "B", "C", "D", "E", "F", "G"} |-> 0],
   total_retries_used |-> 0]

NewCur == [ci |-> 1, si |-> 1, attempt |-> 1, calls |-> 0]

RInit ==
  /\ rrun = NewRankingRun
  /\ rresults = {}
  /\ trace = <<>>
  /\ cache \in CacheChoices
  /\ pref \in {NoPref, ThePref}
  /\ \E n \in 0..MaxCandidates : job_candidates = SubSeq(Candidates, 1, n)
  /\ doomed \in SUBSET {job_candidates[i].id : i \in 1..Len(job_candidates)}
  /\ rpc = "idle"
  /\ rqueue = MaxInvocations
  /\ faults = 0
  /\ cur = NewCur
  /\ outs = NoOuts
  /\ scored_rows = <<>>
  /\ stage_metrics = NewStageMetrics
  /\ rhist = NoRHist
  /\ rretries = 0

CurCandidate == job_candidates[cur.ci]
CurStage == Stages[cur.si]

\* normalized = normalized_out.get('normalized_candidate') if ok_norm else {}
Normalized(o) == IF o.ok_norm THEN o["A"].normalized_candidate ELSE EmptyNormalized

\* what fn() returns for the stage when nothing goes wrong
StageFn(stage, reply) ==
  CASE stage = "A" -> CandidateNormalizerAgent(CurCandidate)
    [] stage = "B" -> CollegeTierClassifierAgent(Normalized(outs), cache, reply)
    [] stage = "C" -> ExperienceExtractionAgent(Normalized(outs))
    [] stage = "D" -> CodingProfileSignalAgent(Normalized(outs), pref)
    [] stage = "E" -> HardFilterAgent(pref, outs["B"], outs["C"], outs["D"])
    [] stage = "F" -> FitScoringAgent(Normalized(outs), outs["E"], outs["B"], outs["C"],
                                      outs["D"], pref)

\* the ways an attempt goes wrong: fn() raises, or returns something that
\* is no dict or that misses a required key
BadResults(stage) ==
  {[raised |-> TRUE, output |-> [is_dict |-> FALSE, keys |-> {}]],
   [raised |-> FALSE, output |-> [is_dict |-> FALSE, keys |-> {}]]}
  \cup {[raised |-> FALSE,
         output |-> [is_dict |-> TRUE, keys |-> STAGE_REQUIRED_KEYS[stage] \ {k}]] :
          k \in STAGE_REQUIRED_KEYS[stage]}

\* what an attempt's fn() did: raised, returned no dict, returned a dict that
\* misses a required key, or returned a dict with every required key
ResultKind(stage, r) ==
  IF r.raised THEN "raised"
  ELSE IF ~r.output.is_dict THEN "not_dict"
  ELSE IF \E k \in STAGE_REQUIRED_KEYS[stage] : k \notin r.output.keys THEN "missing_key"
  ELSE "complete"

\* the try block accepts the attempt
AttemptAccepted(stage, r) == ~r.raised /\ ValidateStageOutput(stage, r.output)

\* for attempt in range(1, STAGE_MAX_ATTEMPTS + 1)
\* faulty variant of InRetryLoop: range(1, STAGE_MAX_ATTEMPTS + 2)
InRetryLoopOffByOne(attempt) == attempt <= STAGE_MAX_ATTEMPTS + 1

InRetryLoop(attempt) == attempt <= STAGE_MAX_ATTEMPTS

\* faulty variant of TraceEvent: fallback_applied is not passed on to the row
TraceEventWithoutFlag(status, error_code, attempt, fallback_applied) ==
  [candidate |-> CurCandidate.id, stage |-> CurStage, status |-> status,
   error_code |-> error_code, attempt |-> attempt, fallback_applied |-> FALSE]

\* the AgentTraceEvent row _persist_trace creates
TraceEvent(status, error_code, attempt, fallback_applied) ==
  [candidate |-> CurCandidate.id, stage |-> CurStage, status |-> status,
   error_code |-> error_code, attempt |-> attempt, fallback_applied |-> fallback_applied]

\* faulty variant of AppendScoredRow: a candidate rejected by the hard filter
\* gets no row
AppendPassingRow(rows, row) == IF row.passes_hard_filter THEN Append(rows, row) ELSE rows

\* scored_rows.append({...})
AppendScoredRow(rows, row) == Append(rows, row)

\* the caller's code after _execute_stage_with_retry returned
\* (output, ok, attempts, fb) for the current stage
StageReturns(output, ok, attempts, fb, calls, kind) ==
  LET s == CurStage
      o == [outs EXCEPT ![s] = output, !.ok_norm = IF s = "A" THEN ok ELSE @]
      row == [candidate |-> CurCandidate.id, created_at |-> CurCandidate.created_at,
              passes_hard_filter |-> o["E"].passes_hard_filter,
              final_score |-> output.final_score, coding_fit |-> output.coding_fit,
              experience_fit |-> output.experience_fit]
  IN /\ stage_metrics' =
          [stage_metrics EXCEPT
             !.retry_counts[s] = @ + (attempts - 1),
             !.total_retries_used = @ + (attempts - 1),
             !.fallback_counts[s] = @ + (IF fb THEN 1 ELSE 0)]
     /\ rhist' = [rhist EXCEPT !.fn = kind, !.ret =
                    [candidate |-> CurCandidate.id, stage |-> s, output |-> output,
                     ok |-> ok, attempts |-> attempts, fallback |-> fb, calls |-> calls]]
     /\ cur' = IF cur.si < Len(Stages)
                 THEN [ci |-> cur.ci, si |-> cur.si + 1, attempt |-> 1, calls |-> 0]
                 ELSE [ci |-> cur.ci + 1, si |-> 1, attempt |-> 1, calls |-> 0]
     /\ IF s # "F"
          THEN /\ outs' = o
               /\ UNCHANGED <<scored_rows, rrun, rpc>>
          ELSE /\ outs' = NoOuts
               /\ scored_rows' = AppendScoredRow(scored_rows, row)
               /\ rrun' = [rrun EXCEPT !.processed_candidates = cur.ci]
               /\ rpc' = IF cur.ci < Len(job_candidates) THEN "stage" ELSE "rank"

\* what fn() can return or raise in this attempt: the stage function's own
\* result (for stage B one per reply of the model), or one of the bad results
AttemptResults ==
  LET text == Normalized(outs).education_text
      key == InstitutionKey(text)
      replies == IF CurStage = "B" /\ text # "" /\ (key = "" \/ CacheLookup(cache, key) = {})
                   THEN ModelReplies ELSE {"fail"}
  IN {[raised |-> FALSE, output |-> StageFn(CurStage, reply)] : reply \in replies}
     \cup BadResults(CurStage)

\* the stages whose every attempt fails for a doomed candidate: the
\* experience and coding-signal stages for an odd candidate (its resume text
\* or the coding rules make them raise), every stage for an even one
DoomedStages(c) == IF c % 2 = 1 THEN {"C", "D"} ELSE {"A", "B", "C", "D", "E", "F"}

\* every attempt of the current stage fails
StageIsDoomed == CurCandidate.id \in doomed /\ CurStage \in DoomedStages(CurCandidate.id)

\* the failures the environment causes: every attempt of the doomed stages of
\* a doomed candidate, at most MaxFaults attempts otherwise
EnvAllows(r) ==
  IF StageIsDoomed THEN r \in BadResults(CurStage)
  ELSE r \in BadResults(CurStage) => faults < MaxFaults

FaultsAfter(r) ==
  IF r \in BadResults(CurStage) /\ ~StageIsDoomed THEN faults + 1 ELSE faults

\* timezone.now(): one tick per invocation of the pipeline
RClock == MaxInvocations - rqueue + 1 + rretries

\* run_candidate_ranking_for_run on a COMPLETED or FAILED run: return run
RankInvokeTerminal ==
  /\ UNCHANGED <<mvars, avars, fvars, cvars, ovars, rretries>>
  /\ rpc = "idle" /\ rqueue > 0
  /\ IsTerminal(rrun.status)
  /\ rqueue' = rqueue - 1
  /\ rhist' = [NoRHist EXCEPT !.outcome = "noop", !.before = rrun,
                              !.results_before = rresults, !.trace_before = trace]
  /\ UNCHANGED <<rrun, rresults, trace, cache, pref, job_candidates, rpc, doomed, faults,
                 cur, outs, scored_rows, stage_metrics>>

\* faulty variant of RankMissingPreference: the run goes to RUNNING before the
\* preference is looked up
RankMissingPreferenceAfterStart ==
  /\ UNCHANGED <<mvars, avars, fvars, cvars, ovars, rretries>>
  /\ rpc = "idle" /\ rqueue > 0
  /\ ~IsTerminal(rrun.status)
  /\ ~pref.exists
  /\ rqueue' = rqueue - 1
  /\ rrun' = [rrun EXCEPT !.status = STATUS_FAILED, !.error_code = "MISSING_PREFERENCE",
                          !.error_message = "Recruiter preference not found for the job.",
                          !.started_at = RClock,
                          !.completed_at = RClock]
  /\ rhist' = [NoRHist EXCEPT !.outcome = "missing_preference", !.before = rrun,
                              !.results_before = rresults, !.trace_before = trace]
  /\ UNCHANGED <<rresults, trace, cache, pref, job_candidates, rpc, doomed, faults,
                 cur, outs, scored_rows, stage_metrics>>

\* no RecruiterJobPreference for the job: FAILED with MISSING_PREFERENCE
RankMissingPreference ==
  /\ UNCHANGED <<mvars, avars, fvars, cvars, ovars, rretries>>
  /\ rpc = "idle" /\ rqueue > 0
  /\ ~IsTerminal(rrun.status)
  /\ ~pref.exists
  /\ rqueue' = rqueue - 1
  /\ rrun' = [rrun EXCEPT !.status = STATUS_FAILED, !.error_code = "MISSING_PREFERENCE",
                          !.error_message = "Recruiter preference not found for the job.",
                          !.completed_at = RClock]
  /\ rhist' = [NoRHist EXCEPT !.outcome = "missing_preference", !.before = rrun,
                              !.results_before = rresults, !.trace_before = trace]
  /\ UNCHANGED <<rresults, trace, cache, pref, job_candidates, rpc, doomed, faults,
                 cur, outs, scored_rows, stage_metrics>>

\* RUNNING, started_at, total_candidates; the candidate loop starts
RankStart ==
  /\ UNCHANGED <<mvars, avars, fvars, cvars, ovars, rretries>>
  /\ rpc = "idle" /\ rqueue > 0
  /\ ~IsTerminal(rrun.status)
  /\ pref.exists
  /\ rqueue' = rqueue - 1
  /\ rrun' = [rrun EXCEPT !.status = STATUS_RUNNING, !.started_at = RClock,
                          !.total_candidates = Len(job_candidates)]
  /\ rhist' = [NoRHist EXCEPT !.outcome = "running", !.before = rrun,
                              !.results_before = rresults, !.trace_before = trace]
  /\ cur' = NewCur
  /\ outs' = NoOuts
  /\ scored_rows' = <<>>
  /\ stage_metrics' = NewStageMetrics
  /\ rpc' = IF Len(job_candidates) > 0 THEN "stage" ELSE "rank"
  /\ UNCHANGED <<rresults, trace, cache, pref, job_candidates, doomed, faults>>

\* one attempt of _execute_stage_with_retry whose output passes validation:
\* SUCCESS event, return (output, True, attempt, False)
StageAttemptSucceeds ==
  /\ UNCHANGED <<mvars, avars, fvars, cvars, ovars, rretries>>
  /\ rpc = "stage"
  /\ InRetryLoop(cur.attempt)
  /\ \E r \in AttemptResults :
       /\ EnvAllows(r)
       /\ AttemptAccepted(CurStage, r)
       /\ faults' = FaultsAfter(r)
       /\ cache' = IF CurStage = "B"
                     THEN CacheAfterClassify(Normalized(outs), cache, r.output)
                     ELSE cache
       /\ trace' = Append(trace, TraceEvent("SUCCESS", "", cur.attempt, FALSE))
       /\ StageReturns(r.output, TRUE, cur.attempt, FALSE, cur.calls + 1,
                       ResultKind(CurStage, r))
  /\ UNCHANGED <<rresults, pref, job_candidates, rqueue, doomed>>

\* one attempt that raises or fails validation: FAILED event, next attempt
StageAttemptFails ==
  /\ UNCHANGED <<mvars, avars, fvars, cvars, ovars, rretries>>
  /\ rpc = "stage"
  /\ InRetryLoop(cur.attempt)
  /\ \E r \in AttemptResults :
       /\ EnvAllows(r)
       /\ ~AttemptAccepted(CurStage, r)
       /\ faults' = FaultsAfter(r)
       /\ rhist' = [rhist EXCEPT !.fn = ResultKind(CurStage, r)]
  /\ trace' = Append(trace, TraceEvent("FAILED", "AGENT_STAGE_ERROR", cur.attempt, FALSE))
  /\ cur' = [cur EXCEPT !.attempt = @ + 1, !.calls = @ + 1]
  /\ UNCHANGED <<rrun, rresults, cache, pref, job_candidates, rpc, rqueue, doomed, outs,
                 scored_rows, stage_metrics>>

\* the loop is over without a return: SKIPPED event, the stage fallback
StageFallbackApplied ==
  /\ UNCHANGED <<mvars, avars, fvars, cvars, ovars, rretries>>
  /\ rpc = "stage"
  /\ ~InRetryLoop(cur.attempt)
  /\ trace' = Append(trace, TraceEvent("SKIPPED", "STAGE_FALLBACK_APPLIED",
                                        STAGE_MAX_ATTEMPTS, TRUE))
  /\ StageReturns(StageFallback(CurStage), FALSE, STAGE_MAX_ATTEMPTS, TRUE, cur.calls,
                  rhist.fn)
  /\ UNCHANGED <<rresults, cache, pref, job_candidates, rqueue, doomed, faults>>

\* ranker_agent returns
RankRows ==
  /\ UNCHANGED <<mvars, avars, fvars, cvars, ovars, rretries>>
  /\ rpc = "rank"
  /\ scored_rows' = RankerAgent(scored_rows, pref.number_of_openings)
  /\ rpc' = "write"
  /\ UNCHANGED <<rrun, rresults, trace, cache, pref, job_candidates, rqueue, doomed, faults,
                 cur, outs, stage_metrics, rhist>>

\* ranker_agent raises: fallback ordering by (created_at, id)
RankerRaises ==
  /\ UNCHANGED <<mvars, avars, fvars, cvars, ovars, rretries>>
  /\ rpc = "rank"
  /\ scored_rows' = FallbackRanking(scored_rows, pref.number_of_openings)
  /\ stage_metrics' = [stage_metrics EXCEPT !.fallback_counts["G"] = @ + 1]
  /\ rpc' = "write"
  /\ UNCHANGED <<rrun, rresults, trace, cache, pref, job_candidates, rqueue, doomed, faults,
                 cur, outs, rhist>>

\* the CandidateRankingResult row created for a ranked row
ResultRow(row) ==
  [candidate |-> row.candidate, rank |-> row.rank, is_shortlisted |-> row.is_shortlisted,
   passes_hard_filter |-> row.passes_hard_filter, final_score |-> row.final_score]

\* with transaction.atomic(): delete the run's rows, create one per ranked row
WriteRankingResults ==
  /\ UNCHANGED <<mvars, avars, fvars, cvars, ovars, rretries>>
  /\ rpc = "write"
  /\ rresults' = {ResultRow(scored_rows[i]) : i \in 1..Len(scored_rows)}
  /\ rpc' = "finish"
  /\ UNCHANGED <<rrun, trace, cache, pref, job_candidates, rqueue, doomed, faults,
                 cur, outs, scored_rows, stage_metrics, rhist>>

\* shortlisted_count, timing_metrics, COMPLETED, completed_at, save
FinishRanking ==
  /\ UNCHANGED <<mvars, avars, fvars, cvars, ovars, rretries>>
  /\ rpc = "finish"
  /\ rrun' = [rrun EXCEPT
                !.shortlisted_count =
                   Cardinality({i \in 1..Len(scored_rows) : scored_rows[i].is_shortlisted}),
                !.timing_metrics = {"stage_metrics", "ranker_ms", "total_ms"},
                !.status = STATUS_COMPLETED,
                !.completed_at = RClock]
  /\ rpc' = "idle"
  /\ rhist' = [rhist EXCEPT !.outcome = "completed"]
  /\ UNCHANGED <<rresults, trace, cache, pref, job_candidates, rqueue, doomed, faults,
                 cur, outs, scored_rows, stage_metrics>>

(***************************************************************************)
(* run_agent_pipeline: heuristic scoring of the jobs, optional blending    *)
(* with model scores (_apply_gpt_scoring, score_jobs_with_gpt), ranking.   *)
(* Scores are kept in millionths, weights in hundredths.                   *)
(***************************************************************************)
\* number of jobs handed to run_agent_pipeline
MaxRows == 2

\* 1.0, the upper end of clamp_score, in millionths
ONE == 1000000
\* default of the GPT_JOB_SCORING_TOP_N setting
GPT_JOB_SCORING_TOP_N == 15
\* budget_seconds of score_jobs_with_gpt
budget_seconds == 80

Max(a, b) == IF a >= b THEN a ELSE b

\* faulty variant of ClampScore: the value is passed on as it is
ClampScoreIdentity(value) == value

\* clamp_score: max(0.0, min(1.0, value))
ClampScore(value) == Max(0, Min(ONE, value))

DEFAULT_WEIGHTS ==
  [work_mode |-> 20, location |-> 20, stipend |-> 25, company_size |-> 10,
   experience_level |-> 10, sector |-> 5, role_match |-> 5, company_preference |-> 5,
   skill_match |-> 35]

\* _effective_weights: user weights replace the defaults of the keys that exist
EffectiveWeights(user_weights) ==
  [k \in DOMAIN DEFAULT_WEIGHTS |->
     IF k \in DOMAIN user_weights THEN user_weights[k] ELSE DEFAULT_WEIGHTS[k]]

\* preferences['weights'] a user can send: an unknown key only, negative
\* weights, weights above 1
WeightChoices ==
  {[bogus |-> 7],
   [work_mode |-> -50, location |-> -50, company_size |-> -50],
   [work_mode |-> 150, location |-> 600, company_size |-> 600]}

\* the Job rows, by what the pipeline reads from them. job_id is the external
\* id string, as the sequence of its character codes ("b", "a", "a3", ...);
\* matched: the preference criteria the job meets; skill_score: the result of
\* calculate_skill_match_score in hundredths (0: no resume skills).
\* Jobs 1 and 2 differ in their ids only.
AgentJob(j) ==
  [id |-> j,
   job_id |-> IF j = 1 THEN <<2>> ELSE IF j = 2 THEN <<1>> ELSE <<1, j>>,
   published_at_ord |-> IF j % 3 = 0 THEN 11 ELSE 10,
   created_at_ord |-> IF j % 3 = 0 THEN 4 ELSE 5,
   desc_long |-> j % 3 # 0,
   has_apply |-> TRUE,
   has_company |-> j % 3 # 0,
   matched |-> IF j % 3 = 0 THEN {"location", "company_size", "stipend"}
                            ELSE {"work_mode", "employment_type"},
   skill_score |-> IF j % 3 = 0 THEN 50 ELSE 0]

\* the orders in which distinct jobs can arrive
InputOrders ==
  {o \in UNION {[1..n -> 1..MaxRows] : n \in 0..MaxRows} :
     \A i, k \in DOMAIN o : i # k => o[i] # o[k]}

Flag(b) == IF b THEN 1 ELSE 0

\* phase 1 of run_agent_pipeline for one job: quality, fit, selection and the row
HeuristicRow(job, effective) ==
  LET quality == ClampScore(400000 + 200000 * Flag(job.desc_long)
                            + 200000 * Flag(job.has_apply)
                            + 200000 * Flag(job.has_company))
      m == job.matched
      fit == ClampScore(
               effective.skill_match * job.skill_score * 100
               + Flag("work_mode" \in m) * effective.work_mode * 10000
               + Flag("employment_type" \in m) * 150000
               + Flag("location" \in m) * effective.location * 5000
               + Flag("company_size" \in m) * effective.company_size * 10000
               + Flag("experience_level" \in m) * effective.experience_level * 10000
               + Flag("sector" \in m) * effective.sector * 10000
               + Flag("role_match" \in m) * effective.role_match * 10000
               + Flag("company_preference" \in m) * effective.company_preference * 10000
               + Flag("stipend" \in m) * effective.stipend * 2000)
      selection == ClampScore((45 * fit + 35 * quality) \div 100
                              + 1000 * effective.location
                              + 1000 * effective.company_size)
  IN [job |-> job, job_id |-> job.id, job_quality_score |-> quality, fit_score |-> fit,
      selection_probability |-> selection, why |-> "heuristic",
      published_at_ord |-> job.published_at_ord, created_at_ord |-> job.created_at_ord,
      scoring_method |-> "heuristic", has_gpt_score |-> FALSE]

\* str < str: lexicographic order of the character codes
RECURSIVE LexLess(_, _)
LexLess(s, t) ==
  IF s = <<>> THEN t # <<>>
  ELSE IF t = <<>> THEN FALSE
  ELSE \/ Head(s) < Head(t)
       \/ Head(s) = Head(t) /\ LexLess(Tail(s), Tail(t))

\* faulty variant of TieBreakLess: the key ends at created_at_ord
TieBreakLessWithoutId(a, b) ==
  \/ a.selection_probability > b.selection_probability
  \/ /\ a.selection_probability = b.selection_probability
     /\ \/ a.published_at_ord > b.published_at_ord
        \/ /\ a.published_at_ord = b.published_at_ord
           /\ a.created_at_ord > b.created_at_ord

\* the sort key (-selection_probability, -published_at_ord, -created_at_ord,
\* str(job.job_id)): a sorts before b
TieBreakLess(a, b) ==
  \/ a.selection_probability > b.selection_probability
  \/ /\ a.selection_probability = b.selection_probability
     /\ \/ a.published_at_ord > b.published_at_ord
        \/ /\ a.published_at_ord = b.published_at_ord
           /\ \/ a.created_at_ord > b.created_at_ord
              \/ /\ a.created_at_ord = b.created_at_ord
                 /\ LexLess(a.job.job_id, b.job.job_id)

\* list.sort(): stable, so a row goes behind every row that is not after it
RECURSIVE InsertByTieBreak(_, _)
InsertByTieBreak(sorted, x) ==
  IF sorted = <<>> THEN <<x>>
  ELSE IF TieBreakLess(x, Head(sorted)) THEN <<x>> \o sorted
  ELSE <<Head(sorted)>> \o InsertByTieBreak(Tail(sorted), x)

RECURSIVE SortByTieBreak(_)
SortByTieBreak(rows) ==
  IF rows = <<>> THEN <<>>
  ELSE InsertByTieBreak(SortByTieBreak(SubSeq(rows, 1, Len(rows) - 1)), rows[Len(rows)])

\* what the model service does with one call: a JSON object with an
\* overall_score (in, above or below [0,1]) and a reasoning, an exception
\* (error or timeout), an empty response, text that is no JSON
ModelCallReplies ==
  {[kind |-> "ok", overall_score |-> 500000, reasoning |-> "model reasoning"],
   [kind |-> "ok", overall_score |-> 1500000, reasoning |-> ""],
   [kind |-> "ok", overall_score |-> -500000, reasoning |-> ""],
   [kind |-> "error", overall_score |-> 0, reasoning |-> ""],
   [kind |-> "empty", overall_score |-> 0, reasoning |-> ""],
   [kind |-> "invalid_json", overall_score |-> 0, reasoning |-> ""]}

\* seconds a model call can take
CallSeconds == {0, 90}

\* one reply and one duration for each of n calls
CallEnvs(n) == [1..n -> [reply : ModelCallReplies, seconds : CallSeconds]]

\* score_single_job_with_gpt: the GPTJobScore dict for the reply of the call.
\* reached_at (elapsed when the loop reached the item), called and seconds
\* record what the loop did for the item.
ScoreSingleJobWithGpt(reply, elapsed, seconds) ==
  [success |-> reply.kind = "ok",
   overall_score |-> IF reply.kind = "ok" THEN reply.overall_score ELSE 0,
   reasoning |-> IF reply.kind = "ok" THEN reply.reasoning ELSE "",
   error |-> CASE reply.kind = "ok" -> ""
               [] reply.kind = "empty" -> "Empty GPT response"
               [] reply.kind = "invalid_json" -> "Invalid JSON from GPT"
               [] OTHER -> "GPT scoring failed",
   reached_at |-> elapsed, called |-> TRUE, seconds |-> seconds]

\* GPTJobScore(error='Time budget exceeded').to_dict()
BudgetExceeded(elapsed) ==
  [success |-> FALSE, overall_score |-> 0, reasoning |-> "",
   error |-> "Time budget exceeded",
   reached_at |-> elapsed, called |-> FALSE, seconds |-> 0]

\* faulty variant of ScoreFrom: the loop never looks at the elapsed time
RECURSIVE ScoreFromWithoutBudget(_, _, _, _, _)
ScoreFromWithoutBudget(n, budget, env, i, elapsed) ==
  IF i > n THEN <<>>
  ELSE <<ScoreSingleJobWithGpt(env[i].reply, elapsed, env[i].seconds)>>
       \o ScoreFromWithoutBudget(n, budget, env, i + 1, elapsed + env[i].seconds)

\* the loop of score_jobs_with_gpt from item i on, elapsed seconds after its start
RECURSIVE ScoreFrom(_, _, _, _, _)
ScoreFrom(n, budget, env, i, elapsed) ==
  IF i > n THEN <<>>
  ELSE IF elapsed >= budget
    THEN <<BudgetExceeded(elapsed)>> \o ScoreFrom(n, budget, env, i + 1, elapsed)
    ELSE <<ScoreSingleJobWithGpt(env[i].reply, elapsed, env[i].seconds)>>
         \o ScoreFrom(n, budget, env, i + 1, elapsed + env[i].seconds)

\* score_jobs_with_gpt for the rows, under a time budget
ScoreJobsWithGpt(rows, budget, env) == ScoreFrom(Len(rows), budget, env, 1, 0)

\* faulty variant of Blend: the score of a failed call (0) is blended as well
BlendWithoutSuccessCheck(row, gpt_score) ==
  [row EXCEPT
     !.selection_probability =
        ClampScore((40 * row.selection_probability
                    + 60 * ClampScore(gpt_score.overall_score)) \div 100),
     !.has_gpt_score = TRUE,
     !.scoring_method = "heuristic+gpt",
     !.why = IF gpt_score.reasoning # "" THEN gpt_score.reasoning ELSE @]

\* the body of the blending loop of _apply_gpt_scoring for one row
Blend(row, gpt_score) ==
  IF gpt_score.success
    THEN [row EXCEPT
            !.selection_probability =
               ClampScore((40 * row.selection_probability
                           + 60 * ClampScore(gpt_score.overall_score)) \div 100),
            !.has_gpt_score = TRUE,
            !.scoring_method = "heuristic+gpt",
            !.why = IF gpt_score.reasoning # "" THEN gpt_score.reasoning ELSE @]
    ELSE row

\* faulty variant of IsGptScoringEnabled: the API key is not looked at
IsGptScoringEnabledWithoutKey == settings.enabled

\* is_gpt_scoring_enabled
IsGptScoringEnabled == settings.enabled /\ settings.has_key

\* the dicts _apply_gpt_scoring returns
NotApplied(reason) ==
  [applied |-> FALSE, reason |-> reason, jobs_scored |-> 0, jobs_attempted |-> 0,
   elapsed_ms |-> 0, keys |-> {"applied", "reason"}]

Applied(scored, attempted, ms) ==
  [applied |-> TRUE, reason |-> "", jobs_scored |-> scored, jobs_attempted |-> attempted,
   elapsed_ms |-> ms, keys |-> {"applied", "jobs_scored", "jobs_attempted", "elapsed_ms"}]

NoMetrics == NotApplied("")

RECURSIVE SumSeconds(_)
SumSeconds(scores) ==
  IF scores = <<>> THEN 0 ELSE Head(scores).seconds + SumSeconds(Tail(scores))

\* run_agent_pipeline is called with the jobs, the preferences and the settings
AInit ==
  /\ jobs_in \in {[i \in DOMAIN o |-> AgentJob(o[i])] : o \in InputOrders}
  /\ preferences \in [weights : WeightChoices]
  /\ settings \in [enabled : BOOLEAN, has_key : BOOLEAN, top_n : {1, GPT_JOB_SCORING_TOP_N}]
  /\ apc = "heuristic"
  /\ result_rows = <<>>
  /\ heuristic_rows = <<>>
  /\ gpt_results = <<>>
  /\ gpt_metrics = NoMetrics
  /\ top_jobs = <<>>

\* phase 1: one row per job, then result_rows.sort(...)
HeuristicPhase ==
  /\ UNCHANGED <<mvars, rvars, fvars, cvars, ovars>>
  /\ apc = "heuristic"
  /\ LET effective == EffectiveWeights(preferences.weights)
         rows == [i \in 1..Len(jobs_in) |-> HeuristicRow(jobs_in[i], effective)]
     IN /\ result_rows' = SortByTieBreak(rows)
        /\ heuristic_rows' = SortByTieBreak(rows)
  /\ apc' = "gpt"
  /\ UNCHANGED <<jobs_in, preferences, settings, gpt_results, gpt_metrics, top_jobs>>

\* _apply_gpt_scoring: the flag is off, there is no API key, or there are no rows
GptScoringDisabled ==
  /\ UNCHANGED <<mvars, rvars, fvars, cvars, ovars>>
  /\ apc = "gpt"
  /\ ~IsGptScoringEnabled \/ result_rows = <<>>
  /\ gpt_metrics' = NotApplied("disabled_or_no_jobs")
  /\ apc' = "rank"
  /\ UNCHANGED <<jobs_in, preferences, settings, result_rows, heuristic_rows, gpt_results,
                 top_jobs>>

\* _apply_gpt_scoring: score_jobs_with_gpt for the top_n rows, then the blending loop
GptScoringApplied ==
  /\ UNCHANGED <<mvars, rvars, fvars, cvars, ovars>>
  /\ apc = "gpt"
  /\ IsGptScoringEnabled /\ result_rows # <<>>
  /\ LET n == Min(settings.top_n, Len(result_rows))
         candidates == SubSeq(result_rows, 1, n)
     IN \E env \in CallEnvs(n) :
          LET scores == ScoreJobsWithGpt(candidates, budget_seconds, env)
          IN /\ gpt_results' = scores
             /\ result_rows' = [i \in 1..Len(result_rows) |->
                                  IF i <= n THEN Blend(result_rows[i], scores[i])
                                            ELSE result_rows[i]]
             /\ gpt_metrics' = Applied(Cardinality({i \in 1..n : scores[i].success}), n,
                                       SumSeconds(scores) * 1000)
  /\ apc' = "rank"
  /\ UNCHANGED <<jobs_in, preferences, settings, heuristic_rows, top_jobs>>

\* _apply_gpt_scoring: building the prompt raises before the first call (the
\* resume metadata is malformed); except Exception returns gpt_error
GptScoringRaises ==
  /\ UNCHANGED <<mvars, rvars, fvars, cvars, ovars>>
  /\ apc = "gpt"
  /\ IsGptScoringEnabled /\ result_rows # <<>>
  /\ gpt_metrics' = NotApplied("gpt_error")
  /\ apc' = "rank"
  /\ UNCHANGED <<jobs_in, preferences, settings, result_rows, heuristic_rows, gpt_results,
                 top_jobs>>

\* faulty variant of TopJobs: rows with the same score share a rank
TopJobsSharedRank(rows) ==
  [i \in 1..Len(rows) |->
     [rank |-> 1 + Cardinality({k \in 1..Len(rows) :
                  rows[k].selection_probability > rows[i].selection_probability}),
      job_id |-> rows[i].job.id,
      selection_probability |-> rows[i].selection_probability,
      fit_score |-> rows[i].fit_score, job_quality_score |-> rows[i].job_quality_score,
      why |-> rows[i].why, scoring_method |-> rows[i].scoring_method]]

\* the rows of top_jobs: enumerate(result_rows, start=1)
TopJobs(rows) ==
  [i \in 1..Len(rows) |->
     [rank |-> i, job_id |-> rows[i].job.id,
      selection_probability |-> rows[i].selection_probability,
      fit_score |-> rows[i].fit_score, job_quality_score |-> rows[i].job_quality_score,
      why |-> rows[i].why, scoring_method |-> rows[i].scoring_method]]

\* the re-sort when the model scores were applied, and top_jobs
RankJobs ==
  /\ UNCHANGED <<mvars, rvars, fvars, cvars, ovars>>
  /\ apc = "rank"
  /\ LET rows == IF gpt_metrics.applied THEN SortByTieBreak(result_rows) ELSE result_rows
     IN /\ result_rows' = rows
        /\ top_jobs' = TopJobs(rows)
  /\ apc' = "done"
  /\ UNCHANGED <<jobs_in, preferences, settings, heuristic_rows, gpt_results, gpt_metrics>>

\* run_agent_pipeline is not called
AQuiet ==
  /\ jobs_in = <<>>
  /\ preferences = [weights |-> [bogus |-> 7]]
  /\ settings = [enabled |-> FALSE, has_key |-> FALSE, top_n |-> GPT_JOB_SCORING_TOP_N]
  /\ apc = "done"
  /\ result_rows = <<>>
  /\ heuristic_rows = <<>>
  /\ gpt_results = <<>>
  /\ gpt_metrics = NoMetrics
  /\ top_jobs = <<>>

(***************************************************************************)
(* filter_jobs: the chain of queryset filters, one action per block.       *)
(***************************************************************************)
\* largest stipend amount of the jobs and the preferences
MaxAmount == 3

\* None / NULL of a stipend bound
NoAmount == -1

Amounts == 0..MaxAmount

\* the Job rows, by what filter_jobs reads: whether the primary filters
\* (work_mode, employment_type, location, company_size, internship weeks)
\* match, the stipend bounds (no constraint orders them), the currency
\* (nullable), the experience level
JobTable ==
  [primary : BOOLEAN, stipend_min : Amounts \cup {NoAmount},
   stipend_max : Amounts \cup {NoAmount}, stipend_currency : {"INR", "USD", ""},
   experience_level : {"ENTRY", "SENIOR"}]

\* the preferences the views accept: both stipend bounds or none, min <= max;
\* normalize_preferences fills stipend_currency
PreferenceChoices ==
  {p \in [stipend_min : Amounts \cup {NoAmount}, stipend_max : Amounts \cup {NoAmount},
          stipend_currency : {"INR", "USD"}, experience_level : {"", "ENTRY"}] :
     /\ (p.stipend_min = NoAmount) <=> (p.stipend_max = NoAmount)
     /\ p.stipend_min <= p.stipend_max}

\* faulty variant of StipendOverlap: ranges that only touch do not overlap
StipendOverlapStrict(job, stipend_min, stipend_max) ==
  job.stipend_max > stipend_min /\ job.stipend_min < stipend_max

\* Q(stipend_max__gte=stipend_min) & Q(stipend_min__lte=stipend_max)
StipendOverlap(job, stipend_min, stipend_max) ==
  job.stipend_max >= stipend_min /\ job.stipend_min <= stipend_max

\* .filter(stipend_min__isnull=False, stipend_max__isnull=False,
\*         stipend_currency=stipend_currency)
StipendComparable(job, stipend_currency) ==
  /\ job.stipend_min # NoAmount
  /\ job.stipend_max # NoAmount
  /\ job.stipend_currency = stipend_currency

\* metrics[key] = jobs.count()
WithCount(metrics, key, jobs) ==
  [k \in DOMAIN metrics \cup {key} |-> IF k = key THEN Cardinality(jobs) ELSE metrics[k]]

\* filter_jobs is called: jobs = Job.objects.all(), metrics = {initial_count}
FInit ==
  /\ fprefs \in PreferenceChoices
  /\ fjobs = JobTable
  /\ fmetrics = [k \in {"initial_count"} |-> Cardinality(JobTable)]
  /\ fpc = "primary"

\* the primary filters and the internship-duration filter
FilterPrimary ==
  /\ UNCHANGED <<mvars, rvars, avars, cvars, ovars>>
  /\ fpc = "primary"
  /\ fjobs' = {job \in fjobs : job.primary}
  /\ fmetrics' = WithCount(fmetrics, "after_primary_filters", fjobs')
  /\ fpc' = "stipend"
  /\ UNCHANGED fprefs

\* both stipend bounds are given: the comparable jobs whose range overlaps
FilterStipendOverlap ==
  /\ UNCHANGED <<mvars, rvars, avars, cvars, ovars>>
  /\ fpc = "stipend"
  /\ fprefs.stipend_min # NoAmount /\ fprefs.stipend_max # NoAmount
  /\ fjobs' = {job \in fjobs :
                /\ StipendComparable(job, fprefs.stipend_currency)
                /\ StipendOverlap(job, fprefs.stipend_min, fprefs.stipend_max)}
  /\ fmetrics' = WithCount(fmetrics, "after_stipend_overlap", fjobs')
  /\ fpc' = "later"
  /\ UNCHANGED fprefs

\* a stipend bound is None: the block is skipped
FilterStipendNotGiven ==
  /\ UNCHANGED <<mvars, rvars, avars, cvars, ovars>>
  /\ fpc = "stipend"
  /\ fprefs.stipend_min = NoAmount \/ fprefs.stipend_max = NoAmount
  /\ fpc' = "later"
  /\ UNCHANGED <<fprefs, fjobs, fmetrics>>

\* the experience-level filter, ordered_count and capped_count
FilterLaterPredicates ==
  /\ UNCHANGED <<mvars, rvars, avars, cvars, ovars>>
  /\ fpc = "later"
  /\ fjobs' = IF fprefs.experience_level # ""
                THEN {job \in fjobs : job.experience_level = fprefs.experience_level}
                ELSE fjobs
  /\ fmetrics' =
       [k \in DOMAIN fmetrics \cup {"ordered_count", "capped_count"}
                \cup (IF fprefs.experience_level # "" THEN {"after_experience_level"} ELSE {}) |->
          CASE k = "capped_count" -> Min(Cardinality(fjobs'), MAX_AGENT_JOBS)
            [] k \in {"ordered_count", "after_experience_level"} -> Cardinality(fjobs')
            [] OTHER -> fmetrics[k]]
  /\ fpc' = "done"
  /\ UNCHANGED fprefs

\* filter_jobs is not called
FQuiet ==
  /\ fprefs = [stipend_min |-> NoAmount, stipend_max |-> NoAmount,
               stipend_currency |-> "INR", experience_level |-> ""]
  /\ fjobs = {}
  /\ fmetrics = [k \in {"initial_count"} |-> 0]
  /\ fpc = "done"

(***************************************************************************)
(* candidate_ranking_run_create_view: reuse of a completed run, creation   *)
(* and dispatch of a new one.                                              *)
(***************************************************************************)
\* number of calls of the create view
MaxRequests == 3

NoResponse == [status |-> 0, run_id |-> 0, reused |-> FALSE]

\* no request reaches the view
ViewNotServed == [status |-> -1, run_id |-> 0, reused |-> FALSE]

\* the requests: force_recompute, and whether the view gets past its checks
\* (field errors, job not found, no recruiter preference)
CreateRequests ==
  [force_recompute : BOOLEAN, kind : {"ok", "invalid", "job_not_found", "no_preference"}]

\* CandidateRankingRun.objects.filter(job=job, status=COMPLETED)
CompletedRuns(runs) == {r \in runs : r.status = STATUS_COMPLETED}

\* faulty variant of MostRecent: .order_by('created_at').first()
Oldest(runs) == CHOOSE r \in runs : \A q \in runs : q.created_at >= r.created_at

\* .order_by('-created_at').first()
MostRecent(runs) == CHOOSE r \in runs : \A q \in runs : q.created_at <= r.created_at

\* CandidateRankingRun.objects.create(job=job, status=PENDING, ...)
CreatedRun == [id |-> Cardinality(cruns) + 1, status |-> STATUS_PENDING,
               created_at |-> Len(crequests) + 1]

\* no view was called yet, the job has no run
CInit ==
  /\ cruns = {}
  /\ cdispatched = <<>>
  /\ cresponse = NoResponse
  /\ crequests = <<>>

\* the view returns 400 or 404 before it looks for a run
CreateViewRejects ==
  /\ UNCHANGED <<mvars, rvars, avars, fvars, ovars>>
  /\ cresponse # ViewNotServed
  /\ Len(crequests) < MaxRequests
  /\ \E req \in CreateRequests :
       /\ req.kind # "ok"
       /\ crequests' = Append(crequests, req)
       /\ cresponse' = [status |-> IF req.kind = "job_not_found" THEN 404 ELSE 400,
                        run_id |-> 0, reused |-> FALSE]
  /\ UNCHANGED <<cruns, cdispatched>>

\* not force_recompute and a COMPLETED run exists: 200 with its id
CreateViewReuses ==
  /\ UNCHANGED <<mvars, rvars, avars, fvars, ovars>>
  /\ cresponse # ViewNotServed
  /\ Len(crequests) < MaxRequests
  /\ \E req \in CreateRequests :
       /\ req.kind = "ok"
       /\ ~req.force_recompute /\ CompletedRuns(cruns) # {}
       /\ crequests' = Append(crequests, req)
       /\ cresponse' = [status |-> 200, run_id |-> MostRecent(CompletedRuns(cruns)).id,
                        reused |-> TRUE]
  /\ UNCHANGED <<cruns, cdispatched>>

\* a new PENDING run; run_candidate_ranking_pipeline.delay(run.id) returns
CreateViewDispatches ==
  /\ UNCHANGED <<mvars, rvars, avars, fvars, ovars>>
  /\ cresponse # ViewNotServed
  /\ Len(crequests) < MaxRequests
  /\ \E req \in CreateRequests :
       /\ req.kind = "ok"
       /\ req.force_recompute \/ CompletedRuns(cruns) = {}
       /\ crequests' = Append(crequests, req)
       /\ cruns' = cruns \cup {CreatedRun}
       /\ cdispatched' = Append(cdispatched, [run_id |-> CreatedRun.id, via |-> "delay",
                                              status |-> CreatedRun.status])
       /\ cresponse' = [status |-> 202, run_id |-> CreatedRun.id, reused |-> FALSE]

\* a new PENDING run; delay raises, so the view calls
\* run_candidate_ranking_pipeline.run(run.id), which ends the run
CreateViewRunsInline ==
  /\ UNCHANGED <<mvars, rvars, avars, fvars, ovars>>
  /\ cresponse # ViewNotServed
  /\ Len(crequests) < MaxRequests
  /\ \E req \in CreateRequests, final \in {STATUS_COMPLETED, STATUS_FAILED} :
       /\ req.kind = "ok"
       /\ req.force_recompute \/ CompletedRuns(cruns) = {}
       /\ crequests' = Append(crequests, req)
       /\ cruns' = cruns \cup {[CreatedRun EXCEPT !.status = final]}
       /\ cdispatched' = Append(cdispatched, [run_id |-> CreatedRun.id, via |-> "run",
                                              status |-> CreatedRun.status])
       /\ cresponse' = [status |-> 202, run_id |-> CreatedRun.id, reused |-> FALSE]

\* a worker ends a run that was dispatched with delay
PipelineFinishes ==
  /\ UNCHANGED <<mvars, rvars, avars, fvars, ovars>>
  /\ \E r \in cruns, final \in {STATUS_COMPLETED, STATUS_FAILED} :
       /\ r.status = STATUS_PENDING
       /\ cruns' = (cruns \ {r}) \cup {[r EXCEPT !.status = final]}
  /\ UNCHANGED <<cdispatched, cresponse, crequests>>

\* the create view is not called
CQuiet ==
  /\ cruns = {}
  /\ cdispatched = <<>>
  /\ cresponse = ViewNotServed
  /\ crequests = <<>>

(***************************************************************************)
(* Two overlapping executions of run_matching_pipeline for one run id: the *)
(* queue delivers the message a second time while the first execution is   *)
(* still running.  Each execution holds its own matching_run object.       *)
(***************************************************************************)
Executions == {1, 2}

\* the rows of the execution's top_jobs that collide with a visible row of
\* another writer on unique_rank_per_run or unique_job_per_run
UniqueViolations(mine, visible) ==
  {r \in mine : \E v \in visible : v # r /\ (v.rank = r.rank \/ v.job_id = r.job_id)}

OInit ==
  /\ orun = NewRun
  /\ oresults = {}
  /\ opc = [e \in Executions |-> "queued"]
  /\ omem = [e \in Executions |-> NewRun]
  /\ ofr = [e \in Executions |-> FilterJobs({})]
  /\ odeleted = [e \in Executions |-> {}]

\* except Exception in run_matching_pipeline: FAILED, error fields, save, raise
OverlapTaskFails(e, exc) ==
  LET failed == [omem[e] EXCEPT !.status = STATUS_FAILED,
                                !.error_code = "AGENT_PIPELINE_ERROR",
                                !.error_message = exc]
  IN /\ omem' = [omem EXCEPT ![e] = failed]
     /\ orun' = Save(orun, failed, {"status", "error_code", "error_message"})
     /\ opc' = [opc EXCEPT ![e] = "done"]

\* the execution loads the run and finds it COMPLETED or FAILED: it returns
OverlapReturnTerminal(e) ==
  /\ UNCHANGED <<mvars, rvars, avars, fvars, cvars>>
  /\ opc[e] = "queued"
  /\ IsTerminal(orun.status)
  /\ omem' = [omem EXCEPT ![e] = orun]
  /\ opc' = [opc EXCEPT ![e] = "done"]
  /\ UNCHANGED <<orun, oresults, ofr, odeleted>>

\* the execution loads a non-terminal run: FILTERING, started_at, save
OverlapBeginFiltering(e) ==
  /\ UNCHANGED <<mvars, rvars, avars, fvars, cvars>>
  /\ opc[e] = "queued"
  /\ ~IsTerminal(orun.status)
  /\ LET m == [orun EXCEPT !.status = STATUS_FILTERING, !.started_at = e]
     IN /\ omem' = [omem EXCEPT ![e] = m]
        /\ orun' = Save(orun, m, {"status", "started_at"})
  /\ opc' = [opc EXCEPT ![e] = "filter"]
  /\ UNCHANGED <<oresults, ofr, odeleted>>

\* normalize_preferences or filter_jobs raises
OverlapFilterRaises(e) ==
  /\ UNCHANGED <<mvars, rvars, avars, fvars, cvars>>
  /\ opc[e] = "filter"
  /\ OverlapTaskFails(e, "filter_jobs")
  /\ UNCHANGED <<oresults, ofr, odeleted>>

\* total_considered == 0: COMPLETED, completed_at, timing_metrics, save
OverlapFilterEmpty(e) ==
  /\ UNCHANGED <<mvars, rvars, avars, fvars, cvars>>
  /\ opc[e] = "filter"
  /\ LET f == FilterJobs({})
         m == [omem[e] EXCEPT
                 !.filtered_jobs_count = f.total_considered,
                 !.status = STATUS_COMPLETED,
                 !.completed_at = e,
                 !.timing_metrics = @ \cup {"filtering_ms", "deterministic_metrics",
                                            "agent_ms_total", "total_ms"}]
     IN /\ ofr' = [ofr EXCEPT ![e] = f]
        /\ omem' = [omem EXCEPT ![e] = m]
        /\ orun' = Save(orun, m, {"status", "completed_at", "filtered_jobs_count",
                                  "timing_metrics"})
  /\ opc' = [opc EXCEPT ![e] = "done"]
  /\ UNCHANGED <<oresults, odeleted>>

\* surviving jobs: AGENT_RUNNING, filtered_jobs_count, timing_metrics, save
OverlapFilterNonEmpty(e) ==
  /\ UNCHANGED <<mvars, rvars, avars, fvars, cvars>>
  /\ opc[e] = "filter"
  /\ \E S \in (SUBSET Catalog) \ {{}} :
       LET f == FilterJobs(S)
           m == [omem[e] EXCEPT
                   !.filtered_jobs_count = f.total_considered,
                   !.status = STATUS_AGENT_RUNNING,
                   !.timing_metrics = @ \cup {"filtering_ms", "deterministic_metrics"}]
       IN /\ ofr' = [ofr EXCEPT ![e] = f]
          /\ omem' = [omem EXCEPT ![e] = m]
          /\ orun' = Save(orun, m, {"status", "filtered_jobs_count", "timing_metrics"})
  /\ opc' = [opc EXCEPT ![e] = "agent"]
  /\ UNCHANGED <<oresults, odeleted>>

\* run_agent_pipeline raises
OverlapAgentRaises(e) ==
  /\ UNCHANGED <<mvars, rvars, avars, fvars, cvars>>
  /\ opc[e] = "agent"
  /\ OverlapTaskFails(e, "run_agent_pipeline")
  /\ UNCHANGED <<oresults, ofr, odeleted>>

\* run_agent_pipeline returns; transaction.atomic() opens and the delete
\* takes the rows of the run that are visible to it
OverlapDeleteRows(e) ==
  /\ UNCHANGED <<mvars, rvars, avars, fvars, cvars>>
  /\ opc[e] = "agent"
  /\ odeleted' = [odeleted EXCEPT ![e] = oresults]
  /\ opc' = [opc EXCEPT ![e] = "insert"]
  /\ UNCHANGED <<orun, oresults, omem, ofr>>

\* the rows of pipeline_result['top_jobs'] of the execution
OverlapTopJobs(e) ==
  LET top == RunAgentPipeline(ofr[e].jobs) IN {top[i] : i \in 1..Len(top)}

\* the rows another execution committed after the delete of this one
OverlapSurvivors(e) == oresults \ odeleted[e]

\* the creates collide with rows committed meanwhile: IntegrityError, the
\* atomic block rolls back and the exception reaches the task
OverlapInsertConflicts(e) ==
  /\ UNCHANGED <<mvars, rvars, avars, fvars, cvars>>
  /\ opc[e] = "insert"
  /\ UniqueViolations(OverlapTopJobs(e), OverlapSurvivors(e)) # {}
  /\ OverlapTaskFails(e, "MatchingResult.create")
  /\ odeleted' = [odeleted EXCEPT ![e] = {}]
  /\ UNCHANGED <<oresults, ofr>>

\* the atomic block ends: delete and creates become visible together
OverlapCommitResults(e) ==
  /\ UNCHANGED <<mvars, rvars, avars, fvars, cvars>>
  /\ opc[e] = "insert"
  /\ UniqueViolations(OverlapTopJobs(e), OverlapSurvivors(e)) = {}
  /\ oresults' = OverlapSurvivors(e) \cup OverlapTopJobs(e)
  /\ odeleted' = [odeleted EXCEPT ![e] = {}]
  /\ opc' = [opc EXCEPT ![e] = "complete"]
  /\ UNCHANGED <<orun, omem, ofr>>

\* timing metrics, COMPLETED, completed_at, save; the task returns
OverlapCompleteRun(e) ==
  /\ UNCHANGED <<mvars, rvars, avars, fvars, cvars>>
  /\ opc[e] = "complete"
  /\ LET m == [omem[e] EXCEPT
                 !.status = STATUS_COMPLETED,
                 !.completed_at = e,
                 !.timing_metrics = @ \cup {"agent_ms_total", "gpt_scoring", "total_ms"}]
     IN /\ omem' = [omem EXCEPT ![e] = m]
        /\ orun' = Save(orun, m, {"status", "completed_at", "timing_metrics"})
  /\ opc' = [opc EXCEPT ![e] = "done"]
  /\ UNCHANGED <<oresults, ofr, odeleted>>

\* no overlapping executions: nothing was delivered
OQuiet ==
  /\ orun = NewRun
  /\ oresults = {}
  /\ opc = [e \in Executions |-> "done"]
  /\ omem = [e \in Executions |-> NewRun]
  /\ ofr = [e \in Executions |-> FilterJobs({})]
  /\ odeleted = [e \in Executions |-> {}]

ONext ==
  \E e \in Executions :
    \/ OverlapReturnTerminal(e)
    \/ OverlapBeginFiltering(e)
    \/ OverlapFilterRaises(e)
    \/ OverlapFilterEmpty(e)
    \/ OverlapFilterNonEmpty(e)
    \/ OverlapAgentRaises(e)
    \/ OverlapDeleteRows(e)
    \/ OverlapInsertConflicts(e)
    \/ OverlapCommitResults(e)
    \/ OverlapCompleteRun(e)

\* the matching pipeline does not run: no message was ever queued
MQuiet ==
  /\ run = NewRun
  /\ results = {}
  /\ queue = <<>>
  /\ clock = 0
  /\ lost = 0
  /\ pc = [w \in Workers |-> "idle"]
  /\ request = [w \in Workers |-> 0]
  /\ mem = [w \in Workers |-> NewRun]
  /\ fr = [w \in Workers |-> [total_considered |-> 0, jobs |-> <<>>]]
  /\ tm = [w \in Workers |-> {}]
  /\ pr = [w \in Workers |-> <<>>]
  /\ tx = [w \in Workers |-> {}]
  /\ hist = [w \in Workers |-> NoHist]

\* the ranking pipeline does not run: no invocation is to come
RQuiet ==
  /\ rrun = NewRankingRun
  /\ rresults = {}
  /\ trace = <<>>
  /\ cache = {}
  /\ pref = NoPref
  /\ job_candidates = <<>>
  /\ doomed = {}
  /\ rpc = "idle"
  /\ rqueue = 0
  /\ faults = 0
  /\ cur = NewCur
  /\ outs = NoOuts
  /\ scored_rows = <<>>
  /\ stage_metrics = NewStageMetrics
  /\ rhist = NoRHist
  /\ rretries = 0

(***************************************************************************)
(* Persistence failures during run_candidate_ranking_for_run, and the task *)
(* run_candidate_ranking_pipeline around it.                               *)
(***************************************************************************)
\* faulty variant of PersistenceRaises: the exception is swallowed inside
\* run_candidate_ranking_for_run, which returns the run as it is
PersistenceRaisesSwallowed ==
  /\ UNCHANGED <<mvars, avars, fvars, cvars, ovars>>
  /\ rpc \in {"stage", "write", "finish"}
  /\ rpc' = "idle"
  /\ rhist' = [rhist EXCEPT !.outcome = "persistence_error"]
  /\ UNCHANGED <<rrun, rresults, trace, cache, pref, job_candidates, rqueue, doomed, faults,
                 cur, outs, scored_rows, stage_metrics, rretries>>

\* a write to the database raises: AgentTraceEvent.objects.create in
\* _persist_trace, run.save of processed_candidates, the atomic result write
\* (rolled back) or the final run.save.  Nothing in
\* run_candidate_ranking_for_run catches it: the exception leaves the function
PersistenceRaises ==
  /\ UNCHANGED <<mvars, avars, fvars, cvars, ovars>>
  /\ rpc \in {"stage", "write", "finish"}
  /\ rpc' = "raised"
  /\ rhist' = [rhist EXCEPT !.outcome = "persistence_error"]
  /\ UNCHANGED <<rrun, rresults, trace, cache, pref, job_candidates, rqueue, doomed, faults,
                 cur, outs, scored_rows, stage_metrics, rretries>>

\* the task wrapper retries with backoff while the capped retry count allows:
\* the message is queued again and the pipeline is executed again
TaskWrapperRetries ==
  /\ UNCHANGED <<mvars, avars, fvars, cvars, ovars>>
  /\ rpc = "raised"
  /\ rretries < TASK_MAX_RETRIES
  /\ rretries' = rretries + 1
  /\ rqueue' = rqueue + 1
  /\ rpc' = "idle"
  /\ UNCHANGED <<rrun, rresults, trace, cache, pref, job_candidates, doomed, faults,
                 cur, outs, scored_rows, stage_metrics, rhist>>

\* the retries are used up: the task wrapper marks the run FAILED with an
\* error code and message and completed_at
TaskWrapperMarksFailed ==
  /\ UNCHANGED <<mvars, avars, fvars, cvars, ovars>>
  /\ rpc = "raised"
  /\ rretries >= TASK_MAX_RETRIES
  /\ rrun' = [rrun EXCEPT !.status = STATUS_FAILED,
                          !.error_code = "RANKING_PIPELINE_ERROR",
                          !.error_message = "persistence_error",
                          !.completed_at = RClock]
  /\ rpc' = "idle"
  /\ UNCHANGED <<rresults, trace, cache, pref, job_candidates, rqueue, doomed, faults,
                 cur, outs, scored_rows, stage_metrics, rhist, rretries>>

PNext ==
  \/ PersistenceRaises
  \/ TaskWrapperRetries
  \/ TaskWrapperMarksFailed

\* the pipeline steps of a run whose stage attempts all succeed
FaultFreeNext ==
  \/ RankInvokeTerminal
  \/ RankStart
  \/ StageAttemptSucceeds
  \/ RankRows
  \/ RankerRaises
  \/ WriteRankingResults
  \/ FinishRanking

\* the task is delivered for a job with a preference and one candidate;
\* the database writes are the only operations that fail
RankingFaultInit ==
  /\ MQuiet /\ AQuiet /\ FQuiet /\ CQuiet /\ OQuiet
  /\ rrun = NewRankingRun
  /\ rresults = {}
  /\ trace = <<>>
  /\ cache \in CacheChoices
  /\ pref = ThePref
  /\ job_candidates = SubSeq(Candidates, 1, 1)
  /\ doomed = {}
  /\ rpc = "idle"
  /\ rqueue = MaxInvocations
  /\ faults = MaxFaults
  /\ cur = NewCur
  /\ outs = NoOuts
  /\ scored_rows = <<>>
  /\ stage_metrics = NewStageMetrics
  /\ rhist = NoRHist
  /\ rretries = 0

MNext ==
  \E w \in Workers :
    \/ TaskReturnTerminal(w)
    \/ BeginFiltering(w)
    \/ FilterRaises(w)
    \/ FilterEmpty(w)
    \/ FilterNonEmpty(w)
    \/ AgentRaises(w)
    \/ AgentPipeline(w)
    \/ InsertRow(w)
    \/ InsertRowFails(w)
    \/ CommitResults(w)
    \/ CompleteRun(w)
    \/ TaskReturns(w)
    \/ WorkerLost(w)

RNext ==
  \/ RankInvokeTerminal
  \/ RankMissingPreference
  \/ RankStart
  \/ StageAttemptSucceeds
  \/ StageAttemptFails
  \/ StageFallbackApplied
  \/ RankRows
  \/ RankerRaises
  \/ WriteRankingResults
  \/ FinishRanking

ANext ==
  \/ HeuristicPhase
  \/ GptScoringDisabled
  \/ GptScoringApplied
  \/ GptScoringRaises
  \/ RankJobs

FNext ==
  \/ FilterPrimary
  \/ FilterStipendOverlap
  \/ FilterStipendNotGiven
  \/ FilterLaterPredicates

CNext ==
  \/ CreateViewRejects
  \/ CreateViewReuses
  \/ CreateViewDispatches
  \/ CreateViewRunsInline
  \/ PipelineFinishes

Next == MNext \/ RNext \/ ANext \/ FNext \/ CNext \/ ONext

MatchingInit == MInit /\ RQuiet /\ AQuiet /\ FQuiet /\ CQuiet /\ OQuiet

RankingInit == MQuiet /\ RInit /\ AQuiet /\ FQuiet /\ CQuiet /\ OQuiet

AgentInit == MQuiet /\ RQuiet /\ AInit /\ FQuiet /\ CQuiet /\ OQuiet

FilterInit == MQuiet /\ RQuiet /\ AQuiet /\ FInit /\ CQuiet /\ OQuiet

CreateViewInit == MQuiet /\ RQuiet /\ AQuiet /\ FQuiet /\ CInit /\ OQuiet

OverlapInit == MQuiet /\ RQuiet /\ AQuiet /\ FQuiet /\ CQuiet /\ OInit

Init ==
  \/ MatchingInit \/ RankingInit \/ AgentInit
  \/ FilterInit \/ CreateViewInit \/ OverlapInit

\* a matching run, a candidate-ranking run or a call of run_agent_pipeline
Spec == Init /\ [][Next]_vars

\* a matching run alone
MatchingSpec == MatchingInit /\ [][MNext]_vars

\* a candidate-ranking run alone
RankingSpec == RankingInit /\ [][RNext]_vars

\* a call of run_agent_pipeline alone
AgentSpec == AgentInit /\ [][ANext]_vars

\* a call of filter_jobs alone
FilterSpec == FilterInit /\ [][FNext]_vars

\* calls of candidate_ranking_run_create_view for one job
CreateViewSpec == CreateViewInit /\ [][CNext]_vars

\* two overlapping executions of the matching task alone
OverlapSpec == OverlapInit /\ [][ONext]_vars

\* a candidate-ranking run whose database writes can raise, with its task
RankingFaultSpec == RankingFaultInit /\ [][FaultFreeNext \/ PNext]_vars

(***************************************************************************)
(* Properties of the run lifecycle.                                        *)
(***************************************************************************)

\* C1: invoking the pipeline on a run that is COMPLETED or FAILED is a no-op:
\* the run row (status, counts, error code/message, timing metrics,
\* timestamps), its result rows and its trace events stay as they are, for
\* every invocation, however often it is repeated.
C1_TerminalRunUnchanged ==
  [][/\ IsTerminal(run.status) => run' = run /\ results' = results
     /\ IsTerminal(rrun.status) => rrun' = rrun /\ rresults' = rresults /\ trace' = trace
     /\ \A w \in Workers :
          hist'[w].outcome = "noop" =>
            /\ IsTerminal(hist'[w].before.status)
            /\ run' = hist'[w].before /\ results' = hist'[w].results_before
     /\ rhist'.outcome = "noop" =>
          /\ IsTerminal(rhist'.before.status)
          /\ rrun' = rhist'.before /\ rresults' = rhist'.results_before
          /\ trace' = rhist'.trace_before]_vars

\* a COMPLETED matching run with results has been invoked again
C1_Witness ==
  \E w \in Workers :
    /\ hist[w].outcome = "noop" /\ run.status = STATUS_COMPLETED /\ results # {}

\* the status changes the spec's state machine allows for a MatchingRun
AllowedTransition(a, b) ==
  \/ <<a, b>> \in {<<STATUS_PENDING, STATUS_FILTERING>>,
                   <<STATUS_FILTERING, STATUS_AGENT_RUNNING>>,
                   <<STATUS_AGENT_RUNNING, STATUS_COMPLETED>>,
                   <<STATUS_FILTERING, STATUS_COMPLETED>>}
  \/ ~IsTerminal(a) /\ b = STATUS_FAILED

\* C2: every status change of a MatchingRun is PENDING->FILTERING,
\* FILTERING->AGENT_RUNNING, AGENT_RUNNING->COMPLETED, FILTERING->COMPLETED or
\* non-terminal->FAILED, also when a run left in FILTERING or AGENT_RUNNING is
\* invoked again: no invocation moves a run back to an earlier state.
C2_OnlyForwardTransitions ==
  [][run'.status # run.status => AllowedTransition(run.status, run'.status)]_vars

\* C6: when a step of run_matching_for_run raises, the task leaves the run
\* FAILED with a non-empty error_code, the exception text as error_message
\* and completed_at set.
C6_FailureSetsCompletedAt ==
  \A w \in Workers :
    hist[w].outcome = "raised" =>
      /\ run.status = STATUS_FAILED
      /\ run.error_code # ""
      /\ run.error_message = hist[w].raised
      /\ run.completed_at # 0

\* C7: when filter_jobs reports total_considered == 0 the run goes from
\* FILTERING straight to COMPLETED with filtered_jobs_count == 0 and
\* completed_at set, it has no MatchingResult rows, the invocation never
\* enters AGENT_RUNNING and never calls run_agent_pipeline.
C7_EmptyFilterCompletesEmpty ==
  \A w \in Workers :
    hist[w].outcome = "empty" =>
      /\ run.status = STATUS_COMPLETED
      /\ run.filtered_jobs_count = 0
      /\ run.completed_at # 0
      /\ results = {}
      /\ ~hist[w].entered_agent
      /\ hist[w].agent_calls = 0

\* the rows of a whole result set: one per top_job
WholeResultSet(rows) == {rows[i] : i \in 1..Len(rows)}

\* C8: a result write that fails part-way is rolled back as one unit and the
\* run ends FAILED, never COMPLETED; the visible rows only ever change to a
\* whole result set, and a run with jobs turns COMPLETED only after its whole
\* result set has been committed.
C8_ResultWriteIsAtomic ==
  [][/\ results' # results =>
          \E w \in Workers : pc[w] = "insert" /\ results' = WholeResultSet(pr[w])
     /\ \A w \in Workers :
          hist'[w].write_failed =>
            /\ run'.status = STATUS_FAILED
            /\ results' = hist'[w].results_before
     /\ (run'.status = STATUS_COMPLETED /\ run.status # STATUS_COMPLETED
           /\ run'.filtered_jobs_count > 0) =>
          \E w \in Workers :
            /\ hist[w].committed
            /\ results = WholeResultSet(pr[w])
            /\ Cardinality(results) = Len(fr[w].jobs)]_vars

\* a write failed after some rows had been created, over an earlier result set
C8_Witness ==
  \E w \in Workers :
    /\ hist[w].write_failed /\ hist[w].partial > 0
    /\ hist[w].results_before # {}
    /\ run.status = STATUS_FAILED

\* C9: when run_matching_for_run raises the task is retried up to
\* max_retries times, each retry executing the pipeline again, and the run is
\* FAILED only once those retries are used up.
C9_FailedOnlyAfterRetries ==
  run.status = STATUS_FAILED => \E w \in Workers : request[w] = TASK_MAX_RETRIES

(***************************************************************************)
(* Properties of the stage retry/fallback envelope.                        *)
(***************************************************************************)
CandidateIds == {job_candidates[i].id : i \in 1..Len(job_candidates)}

\* the trace events of one stage of one candidate, in insertion order
EventsOf(c, s) == SelectSeq(trace, LAMBDA e : e.candidate = c /\ e.stage = s)

\* C3: whatever stage attempts fail, also when every attempt of every stage
\* fails for a candidate, the invocation does not abort: it always has a next
\* step until the run is COMPLETED, and the completed run has exactly one
\* CandidateRankingResult per candidate of the job.
C3_OneResultPerCandidate ==
  /\ rpc # "idle" => ENABLED RNext
  /\ (rpc = "idle" /\ rhist.outcome \notin {"none", "noop", "missing_preference"}) =>
        rrun.status = STATUS_COMPLETED
  /\ rrun.status = STATUS_COMPLETED =>
        /\ \A c \in CandidateIds : Cardinality({r \in rresults : r.candidate = c}) = 1
        /\ Cardinality(rresults) = Len(job_candidates)
        /\ rrun.processed_candidates = Len(job_candidates)

\* a completed run in which every attempt of every stage failed for a candidate
C3_Witness ==
  /\ rrun.status = STATUS_COMPLETED
  /\ Len(job_candidates) > 1
  /\ \E c \in doomed :
       /\ \A i \in 1..Len(Stages) :
            /\ Len(EventsOf(c, Stages[i])) = STAGE_MAX_ATTEMPTS + 1
            /\ EventsOf(c, Stages[i])[STAGE_MAX_ATTEMPTS + 1].status = "SKIPPED"
       /\ Cardinality({r \in rresults : r.candidate = c}) = 1

\* C4: _execute_stage_with_retry calls fn at most STAGE_MAX_ATTEMPTS times;
\* an attempt that raises or returns no dict with every required key is
\* followed by the next attempt; the first complete output is returned at
\* once; the fallback is returned only after STAGE_MAX_ATTEMPTS failed calls.
C4_RetryThenFallback ==
  /\ cur.calls <= STAGE_MAX_ATTEMPTS
  /\ rpc = "stage" =>
        /\ cur.calls = cur.attempt - 1
        /\ cur.calls = Len(EventsOf(CurCandidate.id, CurStage))
        /\ cur.calls > 0 => rhist.fn \in {"raised", "not_dict", "missing_key"}
  /\ (rhist.ret.stage # "" /\ cur.calls = 0) =>
        LET ret == rhist.ret
            failed == Cardinality({i \in 1..Len(trace) :
                        /\ trace[i].candidate = ret.candidate
                        /\ trace[i].stage = ret.stage
                        /\ trace[i].status = "FAILED"})
        IN /\ ret.calls <= STAGE_MAX_ATTEMPTS
           /\ ~ret.fallback =>
                /\ ret.ok /\ rhist.fn = "complete"
                /\ ret.output.is_dict
                /\ STAGE_REQUIRED_KEYS[ret.stage] \subseteq ret.output.keys
                /\ ret.calls = ret.attempts
                /\ failed = ret.attempts - 1
           /\ ret.fallback =>
                /\ ~ret.ok /\ rhist.fn # "complete"
                /\ ret.output = StageFallback(ret.stage)
                /\ ret.calls = STAGE_MAX_ATTEMPTS
                /\ failed = STAGE_MAX_ATTEMPTS

\* a stage returned the output of a retry, after a failed attempt
C4_Witness ==
  /\ rhist.ret.stage # "" /\ ~rhist.ret.fallback /\ rhist.ret.ok
  /\ rhist.ret.attempts > 1 /\ rhist.ret.calls = rhist.ret.attempts
  /\ cur.calls = 0

\* the event e is a correct next event of its stage, after the events prev of
\* the same stage and candidate: prev are FAILED events, and e is FAILED or
\* SUCCESS for the next attempt, or, after STAGE_MAX_ATTEMPTS FAILED events,
\* SKIPPED with fallback_applied
NextEventOk(prev, e) ==
  /\ \A i \in 1..Len(prev) : prev[i].status = "FAILED" /\ prev[i].attempt = i
  /\ \/ /\ e.status \in {"FAILED", "SUCCESS"} /\ ~e.fallback_applied
        /\ e.attempt = Len(prev) + 1 /\ e.attempt <= STAGE_MAX_ATTEMPTS
     \/ /\ e.status = "SKIPPED" /\ e.fallback_applied
        /\ Len(prev) = STAGE_MAX_ATTEMPTS

\* a stage that returned left one event per call of fn, and one more when it
\* returned the fallback
ReturnedStageEvents ==
  rhist.ret.stage # "" =>
    Len(EventsOf(rhist.ret.candidate, rhist.ret.stage))
      = rhist.ret.calls + (IF rhist.ret.fallback THEN 1 ELSE 0)

\* C5: for one stage of one candidate every attempt writes exactly one
\* AgentTraceEvent (FAILED, or SUCCESS for the successful one); when all
\* attempts failed exactly one more event, SKIPPED with fallback_applied, is
\* written; events once written are never updated or deleted.
C5_OneEventPerAttempt ==
  [][/\ Len(trace') >= Len(trace) /\ SubSeq(trace', 1, Len(trace)) = trace
     /\ Len(trace') <= Len(trace) + 1
     /\ Len(trace') = Len(trace) + 1 =>
          LET e == trace'[Len(trace')]
          IN NextEventOk(EventsOf(e.candidate, e.stage), e)
     /\ (rhist'.ret.stage # "" /\ (cur'.calls # cur.calls \/ rhist'.ret # rhist.ret)) =>
          Len(trace') = Len(trace) + 1
     /\ ReturnedStageEvents']_vars

\* one stage fell back (K+1 FAILED events and the SKIPPED one) and a stage
\* succeeded on a retry
C5_Witness ==
  \E c, d \in CandidateIds : \E k, l \in 1..Len(Stages) :
    /\ Len(EventsOf(c, Stages[k])) = STAGE_MAX_ATTEMPTS + 1
    /\ EventsOf(c, Stages[k])[STAGE_MAX_ATTEMPTS + 1].status = "SKIPPED"
    /\ Len(EventsOf(d, Stages[l])) = 2
    /\ EventsOf(d, Stages[l])[2].status = "SUCCESS"

\* C10: a model-service failure or timeout in the Classify stage is a failed
\* attempt of the stage (FAILED event, retried), so no attempt of stage B that
\* is accepted as a success rests on a failed model call.
C10_ModelFailureFailsAttempt ==
  (rhist.ret.stage = "B" /\ rhist.ret.ok) => rhist.ret.output.evidence # "fallback_used"

(***************************************************************************)
(* Properties of scoring and ranking.                                      *)
(***************************************************************************)
\* the ranks of the rows are 1..n, each used by exactly one row
RanksAreOneTo(n, ranks) ==
  /\ Len(ranks) = n
  /\ \A k \in 1..n : Cardinality({i \in 1..n : ranks[i] = k}) = 1

\* C11: for N >= 0 ranked rows the ranks assigned by run_agent_pipeline, by
\* ranker_agent and by the fallback ordering are exactly 1..N, each used once:
\* in top_jobs, in the ranked candidate rows, and in the rows stored from them.
C11_RanksArePermutation ==
  /\ apc = "done" =>
        RanksAreOneTo(Len(jobs_in), [i \in 1..Len(top_jobs) |-> top_jobs[i].rank])
  /\ rpc \in {"write", "finish"} =>
        RanksAreOneTo(Len(job_candidates), [i \in 1..Len(scored_rows) |-> scored_rows[i].rank])
  /\ rrun.status = STATUS_COMPLETED =>
        /\ Cardinality(rresults) = Len(job_candidates)
        /\ \A k \in 1..Len(job_candidates) :
             Cardinality({r \in rresults : r.rank = k}) = 1
  /\ \A k \in 1..Cardinality(results) : Cardinality({r \in results : r.rank = k}) = 1

\* the fallback ordering ranked more than one candidate
C11_Witness ==
  /\ rpc = "finish" /\ stage_metrics.fallback_counts["G"] = 1
  /\ Len(scored_rows) > 1
  /\ \E i, k \in 1..Len(scored_rows) : scored_rows[i].rank = 1 /\ scored_rows[k].rank = 2

\* row a may stand ahead of row b: higher score, or equal score and later
\* published date, or equal and later created date, or equal and a job_id
\* string that is not greater
MayPrecede(a, b) ==
  \/ a.selection_probability > b.selection_probability
  \/ /\ a.selection_probability = b.selection_probability
     /\ a.published_at_ord > b.published_at_ord
  \/ /\ a.selection_probability = b.selection_probability
     /\ a.published_at_ord = b.published_at_ord
     /\ a.created_at_ord > b.created_at_ord
  \/ /\ a.selection_probability = b.selection_probability
     /\ a.published_at_ord = b.published_at_ord
     /\ a.created_at_ord = b.created_at_ord
     /\ ~LexLess(b.job.job_id, a.job.job_id)

RowOf(rows, id) == rows[CHOOSE k \in 1..Len(rows) : rows[k].job.id = id]

\* the item is the 'Time budget exceeded' outcome of a call that was not made
IsBudgetOutcome(item) ==
  /\ ~item.called
  /\ ~item.success
  /\ item.error = "Time budget exceeded"

\* the row has the score, the rationale and the trace of the heuristic phase
KeepsHeuristic(row, heuristic) ==
  /\ row.selection_probability = heuristic.selection_probability
  /\ row.why = heuristic.why
  /\ row.scoring_method = heuristic.scoring_method
  /\ row.has_gpt_score = heuristic.has_gpt_score

\* C13: score_jobs_with_gpt compares the elapsed time of the batch with the
\* budget before each call: an item reached with elapsed < budget is called and
\* its result is the reply of its call however long the call took; an item
\* reached with elapsed >= budget is not called, gets 'Time budget exceeded'
\* with success false and its row keeps the heuristic score. With a budget of 0
\* no item is called, every item has the budget outcome, every row stays as
\* the heuristic phase left it and no item counts as scored.
C13_BudgetCheckedBeforeEachCall ==
  /\ \A i \in 1..Len(gpt_results) :
       LET item == gpt_results[i]
       IN /\ item.called <=> item.reached_at < budget_seconds
          /\ ~item.called =>
               /\ IsBudgetOutcome(item)
               /\ KeepsHeuristic(RowOf(result_rows, heuristic_rows[i].job.id),
                                 heuristic_rows[i])
  /\ (apc = "gpt" /\ result_rows # <<>>) =>
       LET n == Min(settings.top_n, Len(result_rows))
           candidates == SubSeq(result_rows, 1, n)
       IN \A env \in CallEnvs(n) :
            /\ LET scores == ScoreJobsWithGpt(candidates, budget_seconds, env)
               IN \A i \in 1..n :
                    /\ scores[i].reached_at =
                         SumSeconds(SubSeq(scores, 1, i - 1))
                    /\ scores[i].called =>
                         /\ scores[i].success = (env[i].reply.kind = "ok")
                         /\ scores[i].error # "Time budget exceeded"
                         /\ scores[i].seconds = env[i].seconds
                         /\ scores[i].success =>
                              scores[i].overall_score = env[i].reply.overall_score
            /\ LET scores == ScoreJobsWithGpt(candidates, 0, env)
               IN /\ Len(scores) = n
                  /\ \A i \in 1..n :
                       /\ IsBudgetOutcome(scores[i])
                       /\ Blend(candidates[i], scores[i]) = candidates[i]
                  /\ Cardinality({i \in 1..n : scores[i].success}) = 0

\* a call that began within the budget ran past it and still delivered its
\* score; the next item was not called
C13_Witness ==
  /\ apc = "done"
  /\ Len(gpt_results) > 1
  /\ gpt_results[1].called /\ gpt_results[1].seconds >= budget_seconds
  /\ gpt_results[1].success
  /\ RowOf(result_rows, heuristic_rows[1].job.id).scoring_method = "heuristic+gpt"
  /\ IsBudgetOutcome(gpt_results[2])
  /\ gpt_metrics.jobs_scored = 1 /\ gpt_metrics.jobs_attempted = 2

\* C14: after _apply_gpt_scoring went through the top-N rows, a row whose call
\* succeeded has selection_probability clamp(0.40 * heuristic + 0.60 *
\* clamp(overall_score)) and scoring_method 'heuristic+gpt'; a row whose call
\* failed (error, empty response, invalid JSON, budget) has the
\* selection_probability, why and scoring_method of the heuristic phase; rows
\* below the top N are untouched; jobs_attempted is the number of top-N rows
\* and jobs_scored the number of successful calls.
C14_BlendedOrUnchanged ==
  /\ \A i \in 1..Len(gpt_results) :
       LET heuristic == heuristic_rows[i]
           row == RowOf(result_rows, heuristic.job.id)
           gpt_score == gpt_results[i]
       IN IF gpt_score.success
            THEN /\ row.selection_probability =
                      ClampScore((40 * heuristic.selection_probability
                                  + 60 * Max(0, Min(ONE, gpt_score.overall_score)))
                                 \div 100)
                 /\ row.scoring_method = "heuristic+gpt"
                 /\ row.has_gpt_score
            ELSE KeepsHeuristic(row, heuristic)
  /\ apc \in {"rank", "done"} =>
       \A i \in 1..Len(heuristic_rows) :
         i > Len(gpt_results) =>
           KeepsHeuristic(RowOf(result_rows, heuristic_rows[i].job.id), heuristic_rows[i])
  /\ gpt_metrics.applied =>
       /\ gpt_metrics.jobs_attempted = Min(settings.top_n, Len(heuristic_rows))
       /\ gpt_metrics.jobs_attempted = Len(gpt_results)
       /\ gpt_metrics.jobs_scored =
            Cardinality({i \in 1..Len(gpt_results) : gpt_results[i].success})
       /\ gpt_metrics.jobs_scored =
            Cardinality({i \in 1..Len(result_rows) :
                           result_rows[i].scoring_method = "heuristic+gpt"})

\* of two top-N rows one was blended with an overall_score above 1 and one
\* kept its heuristic values after a reply that was no JSON
C14_Witness ==
  /\ apc = "done"
  /\ gpt_metrics.applied
  /\ gpt_metrics.jobs_attempted = 2 /\ gpt_metrics.jobs_scored = 1
  /\ \E i, k \in 1..Len(gpt_results) :
       /\ gpt_results[i].success /\ gpt_results[i].overall_score > ONE
       /\ RowOf(result_rows, heuristic_rows[i].job.id).selection_probability
            # heuristic_rows[i].selection_probability
       /\ gpt_results[k].error = "Invalid JSON from GPT"
       /\ RowOf(result_rows, heuristic_rows[k].job.id).scoring_method = "heuristic"

\* C15: with the GPT scoring flag off or no API key configured,
\* _apply_gpt_scoring makes no model call, leaves the score, the rationale and
\* the trace of every row as the heuristic phase produced them, and returns
\* applied = false with a reason code; top_jobs is then in the heuristic order.
C15_DisabledLeavesHeuristic ==
  ((~settings.enabled \/ ~settings.has_key) /\ apc \in {"rank", "done"}) =>
    /\ gpt_results = <<>>
    /\ result_rows = heuristic_rows
    /\ ~gpt_metrics.applied
    /\ gpt_metrics.reason = "disabled_or_no_jobs"
    /\ gpt_metrics.keys = {"applied", "reason"}
    /\ apc = "done" =>
         /\ Len(top_jobs) = Len(heuristic_rows)
         /\ \A i \in 1..Len(top_jobs) :
              /\ top_jobs[i].rank = i
              /\ top_jobs[i].job_id = heuristic_rows[i].job.id
              /\ top_jobs[i].selection_probability = heuristic_rows[i].selection_probability
              /\ top_jobs[i].why = heuristic_rows[i].why
              /\ top_jobs[i].scoring_method = "heuristic"

\* the flag is on and the key is missing: the pipeline finished with several
\* jobs and without model scores
C15_Witness ==
  /\ apc = "done"
  /\ settings.enabled /\ ~settings.has_key
  /\ Len(top_jobs) > 1
  /\ ~gpt_metrics.applied
  /\ gpt_results = <<>>

\* a score in [0,1], in millionths
InUnit(score) == 0 <= score /\ score <= ONE

\* the sub-scores of a stage F output in [0,100], its final_score (hundredths)
\* in [0,100]
FitOutputInRange(out) ==
  /\ out.education_fit \in 0..100
  /\ out.experience_fit \in 0..100
  /\ out.coding_fit \in 0..100
  /\ out.jd_relevance \in 0..100
  /\ out.final_score \in 0..(100 * 100)

\* job-description hits at, below and above the point where min(100, hits * 5) binds
JdHitChoices == {0, 19, 20, 21, 40}

\* C16: every job_quality_score, fit_score and selection_probability of
\* run_agent_pipeline is in [0,1], after the heuristic phase and after
\* blending, for weights that are negative or above 1 and for an overall_score
\* above 1; every sub-score and final_score of fit_scoring_agent and of the
\* stage F fallback is in [0,100].
C16_ScoresInRange ==
  /\ \A i \in 1..Len(heuristic_rows) :
       /\ InUnit(heuristic_rows[i].job_quality_score)
       /\ InUnit(heuristic_rows[i].fit_score)
       /\ InUnit(heuristic_rows[i].selection_probability)
  /\ \A i \in 1..Len(result_rows) :
       /\ InUnit(result_rows[i].job_quality_score)
       /\ InUnit(result_rows[i].fit_score)
       /\ InUnit(result_rows[i].selection_probability)
  /\ \A i \in 1..Len(top_jobs) :
       /\ InUnit(top_jobs[i].job_quality_score)
       /\ InUnit(top_jobs[i].fit_score)
       /\ InUnit(top_jobs[i].selection_probability)
  /\ outs["F"].is_dict => FitOutputInRange(outs["F"])
  /\ \A i \in 1..Len(scored_rows) :
       /\ scored_rows[i].final_score \in 0..(100 * 100)
       /\ scored_rows[i].coding_fit \in 0..100
       /\ scored_rows[i].experience_fit \in 0..100
  /\ FitOutputInRange(StageFallback("F"))
  /\ (rpc = "idle" /\ pref.exists) =>
       \A hits \in JdHitChoices, tier \in TierEnum, years \in {0, 1, 5}, passes \in BOOLEAN,
          comparisons \in {<<>>, <<TRUE>>, <<FALSE>>, <<TRUE, FALSE, FALSE>>} :
         FitOutputInRange(
           FitScoringAgent([EmptyNormalized EXCEPT !.jd_hits = hits],
                           [passes_hard_filter |-> passes],
                           [college_tier |-> tier],
                           [years_of_experience |-> years],
                           [criteria_comparisons |-> comparisons], pref))

\* weights above 1 and an overall_score above 1: the heuristic sum and the
\* blend were both cut to 1
C16_Witness ==
  /\ apc = "done"
  /\ "location" \in DOMAIN preferences.weights /\ preferences.weights.location > 100
  /\ \E i \in 1..Len(gpt_results) :
       /\ gpt_results[i].success /\ gpt_results[i].overall_score > ONE
       /\ heuristic_rows[i].selection_probability = ONE
       /\ RowOf(result_rows, heuristic_rows[i].job.id).selection_probability = ONE
       /\ RowOf(result_rows, heuristic_rows[i].job.id).scoring_method = "heuristic+gpt"

\* the rejected shape of a stage F output
IsRejectedShape(out) ==
  /\ out.final_score = 0
  /\ out.education_fit = 0 /\ out.experience_fit = 0
  /\ out.coding_fit = 0 /\ out.jd_relevance = 0
  /\ out.summary = "Rejected by hard filters"

\* the scored row of the candidate whose stage F returned last
LastScoredRow ==
  scored_rows[CHOOSE i \in 1..Len(scored_rows) : scored_rows[i].candidate = rhist.ret.candidate]

\* C17: when the hard-filter output has passes_hard_filter false,
\* fit_scoring_agent returns final_score 0, four sub-scores 0 and the summary
\* 'Rejected by hard filters', whatever the tier, the coding comparisons and
\* the job-description overlap; with min_experience_years 0 and
\* max_experience_years 2, 5 extracted years make hard_filter_agent fail a
\* candidate whose tier and coding criteria match.
C17_RejectedFitIsZero ==
  /\ (/\ rhist.ret.stage = "F" /\ rhist.ret.ok /\ ~rhist.ret.fallback
      /\ \E i \in 1..Len(scored_rows) : scored_rows[i].candidate = rhist.ret.candidate
      /\ ~LastScoredRow.passes_hard_filter)
     => /\ IsRejectedShape(rhist.ret.output)
        /\ LastScoredRow.final_score = 0
        /\ LastScoredRow.coding_fit = 0
        /\ LastScoredRow.experience_fit = 0
  /\ (rpc = "idle" /\ pref.exists) =>
       /\ pref.min_experience_years = 0 /\ pref.max_experience_years = 2
       /\ LET hard_out == HardFilterAgent(pref, [college_tier |-> "TIER_1"],
                                          [years_of_experience |-> 5],
                                          [criteria_comparisons |-> <<TRUE>>])
          IN /\ ~hard_out.passes_hard_filter
             /\ hard_out.rejected_reasons = {"Experience outside preferred range"}
             /\ IsRejectedShape(
                  FitScoringAgent([EmptyNormalized EXCEPT !.jd_hits = 40], hard_out,
                                  [college_tier |-> "TIER_1"], [years_of_experience |-> 5],
                                  [criteria_comparisons |-> <<TRUE>>], pref))
       /\ \A hits \in JdHitChoices, tier \in TierEnum, years \in {0, 1, 5},
             comparisons \in {<<>>, <<TRUE>>, <<FALSE>>, <<TRUE, FALSE, FALSE>>} :
            IsRejectedShape(
              FitScoringAgent([EmptyNormalized EXCEPT !.jd_hits = hits],
                              [passes_hard_filter |-> FALSE],
                              [college_tier |-> tier], [years_of_experience |-> years],
                              [criteria_comparisons |-> comparisons], pref))

\* the candidate with 5 years was rejected by hard_filter_agent and
\* fit_scoring_agent itself returned the rejected shape for it
C17_Witness ==
  /\ rhist.ret.stage = "F" /\ rhist.ret.ok /\ ~rhist.ret.fallback
  /\ rhist.ret.candidate = 2
  /\ job_candidates[2].years = 5
  /\ stage_metrics.fallback_counts["E"] = 0
  /\ IsRejectedShape(rhist.ret.output)
  /\ \E i \in 1..Len(scored_rows) :
       scored_rows[i].candidate = 2 /\ ~scored_rows[i].passes_hard_filter

\* the ranked rows mark exactly the ranks 1..openings, min(openings, N) rows
ShortlistIsTop(ranked, openings) ==
  /\ \A i \in 1..Len(ranked) : ranked[i].is_shortlisted <=> ranked[i].rank <= openings
  /\ Cardinality({i \in 1..Len(ranked) : ranked[i].is_shortlisted})
       = Min(openings, Len(ranked))

\* C18: after ranking, a row is is_shortlisted exactly when its rank is at
\* most the number of openings, in the ranked rows and in the stored result
\* rows, and the shortlisted_count of the completed run is min(openings, N);
\* ranker_agent marks the rows this way for every number of openings.
C18_ShortlistedIsTopOpenings ==
  /\ rpc \in {"write", "finish"} => ShortlistIsTop(scored_rows, pref.number_of_openings)
  /\ \A r \in rresults : r.is_shortlisted <=> r.rank <= pref.number_of_openings
  /\ rrun.status = STATUS_COMPLETED =>
       /\ rrun.shortlisted_count = Min(pref.number_of_openings, Len(job_candidates))
       /\ rrun.shortlisted_count = Cardinality({r \in rresults : r.is_shortlisted})
  /\ rpc = "rank" =>
       \A openings \in 1..(Len(scored_rows) + 1) :
         /\ ShortlistIsTop(RankerAgent(scored_rows, openings), openings)
         /\ ShortlistIsTop(FallbackRanking(scored_rows, openings), openings)

\* a completed run with more candidates than openings: rank 1 is shortlisted,
\* rank 2 is not
C18_Witness ==
  /\ rrun.status = STATUS_COMPLETED
  /\ Len(job_candidates) > pref.number_of_openings
  /\ rrun.shortlisted_count = pref.number_of_openings
  /\ \E r, q \in rresults :
       /\ r.rank = 1 /\ r.is_shortlisted
       /\ q.rank = 2 /\ ~q.is_shortlisted

\* the rows in the opposite order
Reversed(rows) == [i \in 1..Len(rows) |-> rows[Len(rows) + 1 - i]]

\* the rows ascend strictly by (created_at, candidate id)
AscendingByCreation(rows) ==
  \A i, k \in 1..Len(rows) :
    i < k => \/ rows[i].created_at < rows[k].created_at
             \/ /\ rows[i].created_at = rows[k].created_at
                /\ rows[i].candidate < rows[k].candidate

C20_MissingPreferenceFailsOnce ==
  /\ rhist.outcome = "missing_preference" =>
       /\ rhist.before.status = STATUS_PENDING
       /\ rrun.status = STATUS_FAILED
       /\ rrun.error_code = "MISSING_PREFERENCE"
       /\ rrun.completed_at # 0
       /\ rrun.started_at = 0
       /\ rrun.processed_candidates = 0 /\ rrun.total_candidates = 0
       /\ trace = <<>> /\ rresults = {}
       /\ rpc = "idle"
  /\ ~pref.exists =>
       /\ rrun.status \in {STATUS_PENDING, STATUS_FAILED}
       /\ rrun.started_at = 0
       /\ trace = <<>> /\ rresults = {} /\ scored_rows = <<>>
       /\ rpc = "idle"
       /\ rhist.outcome = "noop" =>
            /\ rhist.before.status = STATUS_FAILED
            /\ rhist.before.error_code = "MISSING_PREFERENCE"
            /\ rrun = rhist.before

\* the run failed for the missing preference and was invoked once more
C20_Witness ==
  /\ ~pref.exists
  /\ Len(job_candidates) > 0
  /\ rhist.outcome = "noop"
  /\ rrun.status = STATUS_FAILED
  /\ rrun.error_code = "MISSING_PREFERENCE"
  /\ rrun.completed_at # 0

\* the cache holds one row per key, no empty key and no UNKNOWN tier
CacheIsClean(lookup) ==
  \A e \in lookup :
    /\ e.tier \in TierEnum \ {"UNKNOWN"}
    /\ e.institution_normalized # ""
    /\ \A f \in lookup : f.institution_normalized = e.institution_normalized => f = e

\* education texts: none, blank, and two spellings of one institution
EducationTexts == {"", " ", "iit", "IIT "}

\* what college_tier_classifier_agent does for one text, lookup table and reply
ClassifierUsesCache(text, lookup, reply) ==
  LET key == InstitutionKey(text)
      hit == CacheLookup(lookup, key)
      out == CollegeTierClassifierAgent([EmptyNormalized EXCEPT !.education_text = text],
                                        lookup, reply)
      after == CacheAfterClassify([EmptyNormalized EXCEPT !.education_text = text],
                                  lookup, out)
  IN /\ out.model_called => (key = "" \/ hit = {}) /\ ~out.cache_hit
     /\ (key # "" /\ hit # {}) =>
          /\ out.cache_hit /\ ~out.model_called /\ after = lookup
          /\ \E e \in hit : out.college_tier = e.tier
     /\ out.cache_hit => hit # {}
     /\ after # lookup =>
          /\ out.model_called /\ reply \in TierEnum \ {"UNKNOWN"}
          /\ after = lookup \cup {[institution_normalized |-> key, tier |-> reply]}
     /\ (out.model_called /\ reply \notin TierEnum \ {"UNKNOWN"}) =>
          /\ out.college_tier = "UNKNOWN" /\ after = lookup
     /\ CacheIsClean(after)

\* a step in which stage B returned the output of college_tier_classifier_agent
ClassifierReturned ==
  /\ rpc = "stage" /\ CurStage = "B"
  /\ rhist'.ret # rhist.ret
  /\ rhist'.ret.stage = "B" /\ rhist'.ret.ok /\ ~rhist'.ret.fallback

\* the step of C21: a returned classification and the cache rows before and after
ClassifierStep ==
  LET key == InstitutionKey(Normalized(outs).education_text)
      hit == CacheLookup(cache, key)
      out == rhist'.ret.output
  IN /\ ClassifierReturned =>
          /\ out.model_called => (key = "" \/ hit = {}) /\ ~out.cache_hit
          /\ (key # "" /\ hit # {}) =>
               /\ out.cache_hit /\ ~out.model_called /\ cache' = cache
               /\ \E e \in hit : out.college_tier = e.tier
          /\ (out.model_called /\ out.college_tier = "UNKNOWN") => cache' = cache
     /\ cache' # cache =>
          /\ ClassifierReturned
          /\ out.model_called /\ out.evidence = "model"
          /\ out.college_tier \in TierEnum \ {"UNKNOWN"}
          /\ key # "" /\ hit = {}
          /\ cache' = cache \cup {[institution_normalized |-> key, tier |-> out.college_tier]}

\* C21: college_tier_classifier_agent calls the model only when the lookup of
\* the normalized institution key found no row; on a hit it returns the cached
\* tier with cache_hit true, without a model call and without a cache write;
\* the cache changes only by a fresh classification with a tier of the enum
\* other than UNKNOWN (never after a model failure or a label outside the
\* enum), so the cache never holds UNKNOWN.
C21_CacheBeforeModel ==
  /\ [](/\ CacheIsClean(cache)
        /\ (rpc = "stage" /\ CurStage = "B") =>
             \A text \in EducationTexts, reply \in ModelReplies :
               ClassifierUsesCache(text, cache, reply))
  /\ [][ClassifierStep]_vars

\* stage B returned the tier of a cache row written before the run
C21_Witness ==
  /\ rhist.ret.stage = "B" /\ rhist.ret.ok
  /\ rhist.ret.output.cache_hit /\ ~rhist.ret.output.model_called
  /\ rhist.ret.output.college_tier = "TIER_1"
  /\ cache \in CacheChoices /\ cache # {}

\* the jobs that reach the overlap comparison: they passed the primary
\* filters, have both stipend bounds and the currency of the preferences
ReachesOverlapCheck(job) ==
  /\ job.primary
  /\ job.stipend_min # NoAmount /\ job.stipend_max # NoAmount
  /\ job.stipend_currency = fprefs.stipend_currency

\* C22: with both stipend bounds of the preferences given, a job that passed
\* the predicates before the overlap comparison is kept by it if and only if
\* job.stipend_max >= pref.stipend_min and job.stipend_min <= pref.stipend_max,
\* for all values of the four bounds; the later predicates only remove jobs.
C22_StipendOverlapIff ==
  (fprefs.stipend_min # NoAmount /\ fprefs.stipend_max # NoAmount /\ fpc \in {"later", "done"}) =>
    /\ \A job \in JobTable :
         ReachesOverlapCheck(job) =>
           IF job.stipend_max >= fprefs.stipend_min /\ job.stipend_min <= fprefs.stipend_max
             THEN fpc = "later" => job \in fjobs
             ELSE job \notin fjobs
    /\ \A job \in fjobs : ReachesOverlapCheck(job)
    /\ fpc = "later" =>
         fmetrics["after_stipend_overlap"]
           = Cardinality({job \in JobTable :
                            /\ ReachesOverlapCheck(job)
                            /\ job.stipend_max >= fprefs.stipend_min
                            /\ job.stipend_min <= fprefs.stipend_max})

\* preferences 1..2: a job whose range ends at 1 was kept, one whose range
\* starts at 3 was dropped, and a job with min above max was kept
C22_Witness ==
  /\ fpc = "later"
  /\ fprefs.stipend_min = 1 /\ fprefs.stipend_max = 2
  /\ \E kept \in fjobs : kept.stipend_min = 0 /\ kept.stipend_max = 1
  /\ \E kept \in fjobs : kept.stipend_min = 2 /\ kept.stipend_max = 1
  /\ \E job \in JobTable :
       ReachesOverlapCheck(job) /\ job.stipend_min = 3 /\ job \notin fjobs

\* the last call of the create view
LastRequest == crequests'[Len(crequests')]

\* the step of C23: what a call of the create view does to the runs and the
\* dispatches
CreateViewStep ==
  crequests' # crequests =>
    LET completed == {r \in cruns : r.status = STATUS_COMPLETED}
    IN /\ (LastRequest.kind = "ok" /\ ~LastRequest.force_recompute /\ completed # {}) =>
            /\ cruns' = cruns
            /\ cdispatched' = cdispatched
            /\ cresponse'.status = 200 /\ cresponse'.reused
            /\ \E r \in completed :
                 /\ cresponse'.run_id = r.id
                 /\ \A q \in completed : q.created_at <= r.created_at
       /\ (LastRequest.kind = "ok" /\ LastRequest.force_recompute) =>
            /\ Cardinality(cruns') = Cardinality(cruns) + 1
            /\ cruns \subseteq cruns'
            /\ \A r \in cruns' \ cruns : r.id = cresponse'.run_id /\ r.id \notin {q.id : q \in cruns}
            /\ Len(cdispatched') = Len(cdispatched) + 1
            /\ SubSeq(cdispatched', 1, Len(cdispatched)) = cdispatched
            /\ cdispatched'[Len(cdispatched')].run_id = cresponse'.run_id
            /\ cdispatched'[Len(cdispatched')].status = STATUS_PENDING
            /\ cresponse'.status = 202 /\ ~cresponse'.reused
       /\ LastRequest.kind # "ok" =>
            cruns' = cruns /\ cdispatched' = cdispatched

\* C23: a call of the create view without force_recompute for a job with a
\* COMPLETED run returns the id of the most recent COMPLETED run, creates no
\* run and dispatches nothing; a call with force_recompute creates one new
\* run, PENDING when it is dispatched, and dispatches the pipeline for it
\* once; no run is ever dispatched twice.
C23_ReuseOrDispatchOnce ==
  /\ [](/\ Len(cdispatched) = Cardinality(cruns)
        /\ \A r \in cruns :
             Cardinality({i \in 1..Len(cdispatched) : cdispatched[i].run_id = r.id}) = 1)
  /\ [][CreateViewStep]_vars

\* two runs were completed, the second after force_recompute, and a call
\* without force_recompute got the second back
C23_Witness ==
  /\ Len(crequests) = 3
  /\ crequests[2].force_recompute /\ crequests[2].kind = "ok"
  /\ ~crequests[3].force_recompute /\ crequests[3].kind = "ok"
  /\ Cardinality(CompletedRuns(cruns)) = 2
  /\ Len(cdispatched) = 2
  /\ cresponse.reused /\ cresponse.run_id = 2

\* the output of hard_filter_agent is the conjunction of the three conditions
\* and names each violated one
HardFilterIsConjunction(out, p, tier, years, comparisons) ==
  LET tier_ok == tier \in p.college_tiers
      years_ok == p.min_experience_years <= years /\ years <= p.max_experience_years
      coding_ok == \A i \in 1..Len(comparisons) : comparisons[i]
  IN /\ out.passes_hard_filter <=> (tier_ok /\ years_ok /\ coding_ok)
     /\ out.rejected_reasons = {} <=> out.passes_hard_filter
     /\ "College tier mismatch" \in out.rejected_reasons <=> ~tier_ok
     /\ "Experience outside preferred range" \in out.rejected_reasons <=> ~years_ok
     /\ "Coding criteria mismatch" \in out.rejected_reasons <=> ~coding_ok
     /\ Cardinality(out.rejected_reasons)
          = Flag(~tier_ok) + Flag(~years_ok) + Flag(~coding_ok)

\* a step in which stage E returned the output of hard_filter_agent
HardFilterStep ==
  (/\ rpc = "stage" /\ CurStage = "E"
   /\ rhist'.ret # rhist.ret
   /\ rhist'.ret.stage = "E" /\ rhist'.ret.ok /\ ~rhist'.ret.fallback)
  => HardFilterIsConjunction(rhist'.ret.output, pref, outs["B"].college_tier,
                             outs["C"].years_of_experience, outs["D"].criteria_comparisons)

\* C24: hard_filter_agent returns passes_hard_filter true if and only if the
\* tier is in the recruiter's college_tiers, min_experience_years <= years <=
\* max_experience_years and every coding comparison matched; rejected_reasons
\* is empty exactly when it passes and has one reason per violated condition.
C24_HardFilterIsConjunction ==
  /\ []((rpc = "idle" /\ pref.exists) =>
          \A tier \in TierEnum, years \in {0, 1, 2, 3, 5},
             comparisons \in {<<>>, <<TRUE>>, <<FALSE>>, <<TRUE, FALSE>>, <<TRUE, TRUE>>} :
            HardFilterIsConjunction(
              HardFilterAgent(pref, [college_tier |-> tier], [years_of_experience |-> years],
                              [criteria_comparisons |-> comparisons]),
              pref, tier, years, comparisons))
  /\ [][HardFilterStep]_vars

\* hard_filter_agent passed one candidate and rejected another
C24_Witness ==
  /\ rhist.ret.stage = "E" /\ rhist.ret.ok /\ ~rhist.ret.fallback
  /\ ~rhist.ret.output.passes_hard_filter
  /\ Cardinality(rhist.ret.output.rejected_reasons) = 3
  /\ \E i \in 1..Len(scored_rows) : scored_rows[i].passes_hard_filter

\* a fallback of one of the stages was applied for the candidate
FallbackApplied(c, stages) ==
  \E i \in 1..Len(trace) :
    /\ trace[i].candidate = c
    /\ trace[i].fallback_applied
    /\ trace[i].stage \in stages

\* C25: a candidate for which stage B, C, D or E applied its fallback has a
\* row with passes_hard_filter false and final_score 0, also with
\* min_experience_years = 0 and a non-empty list of coding rules.
C25_FallbackNeverHelps ==
  \A i \in 1..Len(scored_rows) :
    FallbackApplied(scored_rows[i].candidate, {"B", "C", "D", "E"}) =>
      /\ ~scored_rows[i].passes_hard_filter
      /\ scored_rows[i].final_score = 0

\* the orders in which the same scored rows can be handed to ranker_agent
RowPermutations(rows) ==
  {[i \in 1..Len(rows) |-> rows[p[i]]] :
     p \in {q \in [1..Len(rows) -> 1..Len(rows)] :
              \A i, k \in 1..Len(rows) : q[i] = q[k] => i = k}}

\* the rank ranker_agent gives the candidate
RankOf(ranked, c) == (CHOOSE i \in 1..Len(ranked) : ranked[i].candidate = c)

\* C26: ranker_agent gives every candidate the same rank for every input
\* order of the same scored rows, also when final_score, coding_fit,
\* experience_fit and created_at all tie.
C26_RankIndependentOfInputOrder ==
  rpc = "rank" =>
    \A perm \in RowPermutations(scored_rows) :
      \A i \in 1..Len(scored_rows) :
        RankOf(RankerAgent(perm, pref.number_of_openings), scored_rows[i].candidate)
          = RankOf(RankerAgent(scored_rows, pref.number_of_openings),
                   scored_rows[i].candidate)

\* C30: in a completed candidate-ranking run no result row of a candidate
\* whose passes_hard_filter is false is marked is_shortlisted.
C30_RejectedNeverShortlisted ==
  rrun.status = STATUS_COMPLETED =>
    \A row \in rresults : row.is_shortlisted => row.passes_hard_filter

\* the timing_metrics key that records a phase of run_matching_for_run, by
\* the status the run has while the phase is running
PhaseTimingKey(status) ==
  IF status = STATUS_FILTERING THEN "filtering_ms" ELSE "agent_ms_total"

\* a step that turns the run FAILED saves the timing of the running phase
FailureRecordsTiming ==
  (run.status \in {STATUS_FILTERING, STATUS_AGENT_RUNNING} /\ run'.status = STATUS_FAILED)
    => PhaseTimingKey(run.status) \in run'.timing_metrics

\* C27: every status transition of a MatchingRun comes with the persisted
\* timing_metrics of the phase just completed: a run in AGENT_RUNNING has
\* filtering_ms, a COMPLETED run has filtering_ms, agent_ms_total and
\* total_ms, and a run that turns FAILED has the timing of the phase that
\* was running.
C27_TransitionsRecordTiming ==
  /\ [](/\ run.status = STATUS_AGENT_RUNNING => "filtering_ms" \in run.timing_metrics
        /\ run.status = STATUS_COMPLETED =>
             {"filtering_ms", "agent_ms_total", "total_ms"} \subseteq run.timing_metrics)
  /\ [][FailureRecordsTiming]_vars

\* no two committed result rows of the run share a rank or a job
NoDuplicateResults ==
  \A a, b \in oresults : (a.rank = b.rank \/ a.job_id = b.job_id) => a = b

\* C28: with two overlapping executions of run_matching_pipeline for one run
\* id the terminal status is stable: once one execution has set COMPLETED no
\* step of the other turns the run FAILED, FILTERING or AGENT_RUNNING, and
\* the result set never holds duplicate ranks or duplicate jobs.
C28_CompletedIsStableUnderOverlap ==
  /\ []NoDuplicateResults
  /\ [][orun.status = STATUS_COMPLETED => orun'.status = STATUS_COMPLETED]_vars

====
